---- MODULE Spec2Model ----
(***************************************************************************)
(* Block-lattice ledger of rsbanano-node: block processing, cementing and  *)
(* the rollback engine (rust/ledger/src/rollback_performer.rs).            *)
(*                                                                         *)
(* Accounts and hashes are small naturals; 0 is the zero account / zero    *)
(* hash.  Amounts are unsigned integers of AmountBits bits, so that the    *)
(* wrapping arithmetic of the representative cache is kept.                *)
(***************************************************************************)
EXTENDS Integers, Sequences, FiniteSets, TLC

\* ------------------------------------------------------------------ bounds
NumAccounts == 3        \* accounts 1..NumAccounts; account 1 is genesis
NumReps == 2            \* representatives a block may name: 1..NumReps
AmountBits == 2         \* width of Amount (u128 in the program)
MaxBlocks == 5          \* blocks stored at any time, the genesis block included
MaxEpoch == 1           \* epochs 0..MaxEpoch
MaxSend == 1            \* a send moves 1..MaxSend
MaxCemented == 2        \* blocks cemented, the genesis block included
MaxTime == 1            \* seconds_since_epoch() ranges over 0..MaxTime
NumServers == 3         \* response servers (accepted sockets) at any time
connections_max == 2    \* BootstrapServer::connections_max (64 in the program)
MaxMessages == 3        \* messages and read errors counted by the statistics
MaxQueue == 1           \* capacity of the realtime message queue
NumIps == 2             \* addresses 1..NumIps, and the unspecified address 0
NumPorts == 2           \* ports 1..NumPorts
NumNodeIds == 2         \* node ids 1..NumNodeIds
MaxChannels == 2        \* channels ever added to the network
MaxNetTime == 1         \* the clock of the network ranges over 0..MaxNetTime
max_peers_per_ip == 2   \* NetworkConstants::max_peers_per_ip
max_peers_per_subnetwork == 2   \* NetworkConstants::max_peers_per_subnetwork
max_inbound_connections == 2    \* TcpConfig::max_inbound_connections
MaxTokens == 1          \* buffers a bucket of the bandwidth limiter lets pass
MaxSends == 3           \* buffers written or dropped by the channel
MaxTcpTime == 1         \* the clock of the channel ranges over 0..MaxTcpTime
MaxPeers == 3            \* channels of the network whose channels are upgraded
MaxSlots == 2            \* endpoints of a keepalive
MaxAsyncSends == 2       \* asynchronous sends handed to the network
NumThreads == 2          \* threads that add to the statistics
MaxValue == 2            \* values added to a counter: 0..MaxValue
MaxCalls == 3            \* calls of add_dir
NumSessions == 2         \* websocket sessions
UsizeBits == 2           \* bits of a subscriber count (the code: a usize)
NumTxns == 2             \* read transactions of the store
MaxTxnCalls == 5         \* calls the tracker of the transactions receives
NumAdders == 2           \* tasks that call Network::add at once
NumReaders == 1          \* connections that are read from (their reads are independent)
HashBytes == 1        \* bytes of a hash, a root or an account (the code: 32)
U64Bytes == 2         \* bytes of an id or a count (the code: 8)
CountBits == 2        \* bits of the header that hold the count of a request
MAX_BLOCKS == 2       \* blocks of one ack (the code: 128)
MaxStream == 7        \* bytes of a stream a request is read from
SendBlockBytes == 1   \* bytes of a send block after its type (the code: 152)
StateBlockBytes == 2  \* bytes of a state block after its type (the code: 216)
ExtensionsBits == 4    \* bits of the header extensions (the code: 16); as in the code,
                       \* the longest payload an ack is built with fits
MaxReads == 2            \* reads of one connection that call back

Modulus == 2 ^ AmountBits
AmountMax == Modulus - 1

ZeroAccount == 0
ZeroHash == 0
GenesisAccount == 1
\* A block's hash stands for its content.  Two blocks of one account at one
\* height never coexist in a ledger, so the pair (account, height) names it.
HashStride == MaxBlocks + 1
HashOf(account, height) == account * HashStride + height
GenesisHash == HashOf(GenesisAccount, 1)
Hashes == {HashOf(a, n) : a \in 1..NumAccounts, n \in 1..MaxBlocks}
Accounts == 1..NumAccounts
Reps == 1..NumReps
\* a send may name any account, the burn account (zero) included
Destinations == 0..NumAccounts
\* the link of an epoch block for epoch e; lies outside accounts and hashes
EpochLink(e) == HashOf(NumAccounts + 1, 0) + e

wrapping_add(a, b) == (a + b) % Modulus
wrapping_sub(a, b) == (a - b + Modulus) % Modulus

\* ------------------------------------------------------------------ tables
Put(f, k, v) == [x \in (DOMAIN f) \cup {k} |-> IF x = k THEN v ELSE f[x]]
Del(f, k) == [x \in (DOMAIN f) \ {k} |-> f[x]]
Empty == [x \in {} |-> 0]

VARIABLES
    ledger,     \* the store and caches: blocks, accounts, pending, frontier,
                \* confirmation_height, rep_weights, block_count
    now,        \* seconds_since_epoch()
    last,       \* the last call, if it was a rollback: its error and the
                \* hashes of the blocks it rolled back, in order
    hist,       \* the ledger before process(h), for every block h processed
                \* since the last call that was not a process call
    srv,        \* the bootstrap (response) servers and what they share
    net,        \* the network: its channels, flags, exclusions and clock
    tcp,        \* one tcp channel: its send path, limiter and statistics
    io,         \* the reads of the response servers and what came of them
    snd,        \* the asynchronous sends handed to the network
    stat,       \* the counters of Stats and the threads that add to them
    wire,        \* the last message written to a stream or read from one
    calls,       \* the calls of add, stop and the wait for an inbound slot in flight
    lmdb,        \* the read transactions of the store and the calls their tracker received
    ws          \* the websocket sessions, their subscriptions and the subscriber counts

vars == <<ledger, now, last, hist, srv, net, tcp, io, snd, stat, wire, calls, lmdb, ws>>
ledger_vars == <<ledger, now, last, hist>>
non_ledger_vars == <<srv, net, tcp, io, snd, stat, wire, calls, lmdb, ws>>
non_server_vars == <<ledger, now, last, hist, net, tcp, io, snd, stat, wire, calls, lmdb, ws>>
non_net_vars == <<ledger, now, last, hist, srv, tcp, io, snd, stat, wire, calls, lmdb, ws>>
non_tcp_vars == <<ledger, now, last, hist, srv, net, io, snd, stat, wire, calls, lmdb, ws>>
non_read_vars == <<ledger, now, last, hist, net, tcp, snd, stat, wire, calls, lmdb, ws>>
non_send_vars == <<ledger, now, last, hist, srv, io, stat, wire, calls, lmdb, ws>>
non_stat_vars == <<ledger, now, last, hist, srv, net, tcp, io, snd, wire, calls, lmdb, ws>>
non_wire_vars == <<ledger, now, last, hist, srv, net, tcp, io, snd, stat, calls, lmdb, ws>>
non_call_vars == <<ledger, now, last, hist, srv, tcp, io, snd, stat, wire, lmdb, ws>>
non_lmdb_vars == <<ledger, now, last, hist, srv, net, tcp, io, snd, stat, wire, calls, ws>>
non_ws_vars == <<ledger, now, last, hist, srv, net, tcp, io, snd, stat, wire, calls, lmdb>>

\* ------------------------------------------------------------------ blocks
NoSideband ==
    [height |-> 0, successor |-> ZeroHash, account |-> ZeroAccount, balance |-> 0,
     epoch |-> 0, is_send |-> FALSE, is_receive |-> FALSE, is_epoch |-> FALSE,
     source_epoch |-> 0]

NewBlock(h, t, acc, prev, rep, bal, dest, src, lnk) ==
    [hash |-> h, type |-> t, account |-> acc, previous |-> prev,
     representative |-> rep, balance |-> bal, destination |-> dest,
     source |-> src, link |-> lnk, sideband |-> NoSideband]

is_legacy(b) == b.type # "state"
is_open(b) == b.type = "open" \/ (b.type = "state" /\ b.previous = ZeroHash)
has_representative(b) == b.type \in {"open", "change", "state"}
\* destination().unwrap_or(link().into())
destination_or_link(b) == IF b.type = "send" THEN b.destination ELSE b.link
\* source().unwrap_or(link().into())
source_or_link(b) ==
    IF b.type \in {"receive", "open"} THEN b.source
    ELSE IF b.type = "state" THEN b.link ELSE ZeroHash
balance_calculated(b) ==
    IF b.type \in {"send", "state"} THEN b.balance ELSE b.sideband.balance
account_calculated(b) ==
    IF b.account # ZeroAccount THEN b.account ELSE b.sideband.account

NoAccountInfo ==
    [head |-> ZeroHash, representative |-> ZeroAccount, open_block |-> ZeroHash,
     balance |-> 0, modified |-> 0, block_count |-> 0, epoch |-> 0]

\* ------------------------------------------------------------ ledger reads
ledger_account(L, h) ==
    IF h \in DOMAIN L.blocks THEN account_calculated(L.blocks[h]) ELSE ZeroAccount
ledger_balance(L, h) ==
    IF h \in DOMAIN L.blocks THEN balance_calculated(L.blocks[h]) ELSE 0
ledger_latest(L, a) ==
    IF a \in DOMAIN L.accounts THEN L.accounts[a].head ELSE ZeroHash
is_epoch_link(lnk) == \E e \in 1..MaxEpoch : lnk = EpochLink(e)
block_version(L, h) ==
    IF h \in DOMAIN L.blocks THEN L.blocks[h].sideband.epoch ELSE 0

RECURSIVE representative_block_hash(_, _)
representative_block_hash(L, h) ==
    IF h \notin DOMAIN L.blocks THEN ZeroHash
    ELSE IF has_representative(L.blocks[h]) THEN h
    ELSE representative_block_hash(L, L.blocks[h].previous)

\* ----------------------------------------------------------- ledger writes
representation_add(w, rep, amount) ==
    [w EXCEPT ![rep] = wrapping_add(@, amount)]
representation_add_dual(w, rep_1, amount_1, rep_2, amount_2) ==
    IF rep_1 # rep_2
    THEN representation_add(representation_add(w, rep_1, amount_1), rep_2, amount_2)
    ELSE representation_add(w, rep_1, wrapping_add(amount_1, amount_2))

update_account(L, account, old_info, new_info) ==
    IF new_info.head # ZeroHash
    THEN [L EXCEPT !.accounts = Put(@, account, new_info)]
    ELSE [L EXCEPT !.accounts = Del(@, account)]

successor_set(blocks, h, succ) ==
    IF h \in DOMAIN blocks
    THEN [blocks EXCEPT ![h].sideband.successor = succ]
    ELSE blocks
successor_clear(blocks, h) == successor_set(blocks, h, ZeroHash)

\* ------------------------------------------------------ write transaction
\* A call runs inside one write transaction t: the ledger L it mutates, the
\* error it ended with ("" for none), the blocks it rolled back, the observer
\* notifications it sent, and the log of its store writes, in order.
Txn(L) == [L |-> L, err |-> "", rolled_back |-> <<>>, observed |-> <<>>, log |-> <<>>]
Fail(t, e) == IF t.err = "" THEN [t EXCEPT !.err = e] ELSE t
Some(x) == [some |-> TRUE, v |-> x]
None == [some |-> FALSE, v |-> 0]

frontier_get(frontier, h) ==
    IF h \in DOMAIN frontier THEN frontier[h] ELSE ZeroAccount
frontier_put(t, h, account) == [t EXCEPT !.L.frontier = Put(@, h, account)]
\* mdb_del of a missing key fails assert_success: the call panics
frontier_del(t, h) ==
    IF h \in DOMAIN t.L.frontier
    THEN [t EXCEPT !.L.frontier = Del(@, h)]
    ELSE Fail(t, "panic")

\* ================================================================ rollback
\* rust/ledger/src/rollback_performer.rs

load_block(t, block_hash) ==
    IF block_hash \in DOMAIN t.L.blocks THEN Some(t.L.blocks[block_hash]) ELSE None

block_exists(t, block_hash) == block_hash \in DOMAIN t.L.blocks

load_account(t, account) ==
    IF account \in DOMAIN t.L.accounts THEN t.L.accounts[account] ELSE NoAccountInfo

\* .get(..).unwrap(): None where the program panics
get_account_info(t, block) ==
    IF account_calculated(block) \in DOMAIN t.L.accounts
    THEN Some(t.L.accounts[account_calculated(block)])
    ELSE None

account_confirmation_height(t, block) ==
    IF account_calculated(block) \in DOMAIN t.L.confirmation_height
    THEN t.L.confirmation_height[account_calculated(block)]
    ELSE 0

\* mutant: the confirmation height itself is taken for unconfirmed
ensure_block_is_not_confirmed_off_by_one(t, block) ==
    ~(block.sideband.height < account_confirmation_height(t, block))

\* TRUE iff the check passes (the block may be rolled back)
ensure_block_is_not_confirmed(t, block) ==
    ~(block.sideband.height <= account_confirmation_height(t, block))

get_account(t, block) == ledger_account(t.L, block.hash)

latest_block_for_account(t, account) == ledger_latest(t.L, account)

get_block_version(t, block_hash) == block_version(t.L, block_hash)

\* None: the block has no representative block; err: the load failed
get_representative(t, block_hash) ==
    LET rep_block_hash ==
            IF block_hash # ZeroHash
            THEN representative_block_hash(t.L, block_hash)
            ELSE ZeroHash
    IN  IF rep_block_hash # ZeroHash
        THEN Some(t.L.blocks[rep_block_hash].representative)
        ELSE None

\* mutant: a tie is taken for a receive
sub_type_of_tie_receives(head_block, current_account_info, previous_balance) ==
    IF current_account_info.balance < previous_balance THEN "send"
    ELSE IF is_open(head_block) THEN "open"
    ELSE "receive"

\* lines 92-104
sub_type_of(head_block, current_account_info, previous_balance) ==
    IF current_account_info.balance < previous_balance THEN "send"
    ELSE IF current_account_info.balance > previous_balance
         THEN (IF is_open(head_block) THEN "open" ELSE "receive")
    ELSE IF is_epoch_link(head_block.link) THEN "epoch"
    ELSE "change"

\* mutant: the block count of the account is not lowered
previous_account_info_same_count(t, block, current_info, previous_rep) ==
    IF block.previous = ZeroHash
    THEN NoAccountInfo
    ELSE [head |-> block.previous,
          representative |->
              IF previous_rep.some THEN previous_rep.v ELSE current_info.representative,
          open_block |-> current_info.open_block,
          balance |-> ledger_balance(t.L, block.previous),
          modified |-> now,
          block_count |-> current_info.block_count,
          epoch |-> get_block_version(t, block.previous)]

previous_account_info(t, block, current_info, previous_rep) ==
    IF block.previous = ZeroHash
    THEN NoAccountInfo
    ELSE [head |-> block.previous,
          representative |->
              IF previous_rep.some THEN previous_rep.v ELSE current_info.representative,
          open_block |-> current_info.open_block,
          balance |-> ledger_balance(t.L, block.previous),
          modified |-> now,
          block_count |-> current_info.block_count - 1,
          epoch |-> get_block_version(t, block.previous)]

\* mutant: the amount is added, not subtracted
roll_back_receive_in_representative_cache_added(w, representative, amount) ==
    representation_add(w, representative, amount)

roll_back_receive_in_representative_cache(w, representative, amount) ==
    representation_add(w, representative, wrapping_sub(0, amount))

roll_back_change_in_representative_cache(w, current_representative, current_balance, previous_representative, previous_balance) ==
    representation_add_dual(w, current_representative, wrapping_sub(0, current_balance),
                            previous_representative, previous_balance)

roll_back_representative_cache(w, current_rep, current_balance, previous_rep, previous_balance) ==
    IF previous_rep.some
    THEN roll_back_change_in_representative_cache(w, current_rep, current_balance,
                                                  previous_rep.v, previous_balance)
    ELSE roll_back_receive_in_representative_cache(w, current_rep, current_balance)

\* mutant: the whole balance is taken for the amount received
roll_back_receive_pending_whole_balance(t, head_block, account, current_account_info, previous_balance) ==
    LET source_hash == source_or_link(head_block)
        linked_account == ledger_account(t.L, source_hash)
        info == [source |-> linked_account,
                 amount |-> current_account_info.balance,
                 epoch |-> head_block.sideband.source_epoch]
    IN  [t EXCEPT !.L.pending = Put(@, <<account, source_hash>>, info),
                  !.log = Append(@, <<"pending_put", account, source_hash>>)]

\* lines 117-134: re-create the pending entry a receive / open consumed
roll_back_receive_pending(t, head_block, account, current_account_info, previous_balance) ==
    LET source_hash == source_or_link(head_block)
        linked_account == ledger_account(t.L, source_hash)
        info == [source |-> linked_account,
                 amount |-> current_account_info.balance - previous_balance,
                 epoch |-> head_block.sideband.source_epoch]
    IN  [t EXCEPT !.L.pending = Put(@, <<account, source_hash>>, info),
                  !.log = Append(@, <<"pending_put", account, source_hash>>)]

\* mutant: the pending entry of the send is left in the table
roll_back_send_pending_kept(t, destination, head_block) == t

\* lines 114-115
roll_back_send_pending(t, destination, head_block) ==
    [t EXCEPT !.L.pending = Del(@, <<destination, head_block.hash>>),
              !.log = Append(@, <<"pending_del", destination, head_block.hash>>)]

\* lines 150-161
roll_back_frontier(t, head_block, previous, account) ==
    IF is_legacy(head_block)
    THEN LET t1 == frontier_del(t, head_block.hash)
         IN  IF previous.some /\ t1.err = ""
             THEN frontier_put(t1, previous.v.hash, account)
             ELSE t1
    ELSE t

\* mutant: the successor of the new head is left set
roll_back_successor_kept(t, previous) == t

\* lines 163-168
roll_back_successor(t, previous) ==
    IF previous.some
    THEN [t EXCEPT !.L.blocks = successor_clear(@, previous.v.hash)]
    ELSE t

\* lines 138-179: everything after the pending table was brought back
roll_back_head_block_apply(t, head_block, account, current_account_info, previous, previous_representative, previous_balance, sub_type) ==
    LET prev_info == previous_account_info(t, head_block, current_account_info,
                                           previous_representative)
        t1 == [t EXCEPT !.L = update_account(@, account, current_account_info, prev_info)]
        t2 == [t1 EXCEPT !.L.blocks = Del(@, head_block.hash),
                         !.log = Append(@, <<"block_del", head_block.hash>>)]
        t3 == roll_back_frontier(t2, head_block, previous, account)
        t4 == roll_back_successor(t3, previous)
        t5 == [t4 EXCEPT !.L.rep_weights =
                   roll_back_representative_cache(@, current_account_info.representative,
                       current_account_info.balance, previous_representative,
                       previous_balance)]
    IN  IF t3.err # "" THEN t3
        ELSE [t5 EXCEPT !.L.block_count = @ - 1,
                        !.observed = Append(@, sub_type)]

RECURSIVE roll_back_block_hash(_, _)
RECURSIVE roll_back_while(_, _, _)
RECURSIVE roll_back_head_block(_, _)
RECURSIVE roll_back_destination_account_until_send_block_is_unreceived(_, _, _)

\* Ledger::rollback on the same write transaction
recurse_roll_back(t, block_hash) == roll_back_block_hash(t, block_hash)

\* mutant: the destination chain is left as it is
roll_back_destination_account_left(t, destination_account, send_block) == t

roll_back_destination_account_until_send_block_is_unreceived(t, destination_account, send_block) ==
    IF t.err # "" THEN t
    ELSE IF <<destination_account, send_block>> \in DOMAIN t.L.pending THEN t
    ELSE LET latest == latest_block_for_account(t, destination_account)
         IN  IF latest = ZeroHash
             THEN Fail(t, "no latest block found")
             ELSE roll_back_destination_account_until_send_block_is_unreceived(
                      recurse_roll_back(t, latest), destination_account, send_block)

roll_back_head_block(t, head_block) ==
    LET account == get_account(t, head_block)
        current_account_info == load_account(t, account)
        previous_representative == get_representative(t, head_block.previous)
        previous == IF head_block.previous = ZeroHash
                    THEN None
                    ELSE load_block(t, head_block.previous)
        previous_balance ==
            IF previous.some THEN balance_calculated(previous.v) ELSE 0
        sub_type == sub_type_of(head_block, current_account_info, previous_balance)
        destination == destination_or_link(head_block)
        t1 == CASE sub_type = "send" ->
                     LET u == roll_back_destination_account_until_send_block_is_unreceived(
                                  t, destination, head_block.hash)
                     IN  IF u.err # "" THEN u
                         ELSE roll_back_send_pending(u, destination, head_block)
                [] sub_type \in {"receive", "open"} ->
                     roll_back_receive_pending(t, head_block, account,
                                               current_account_info, previous_balance)
                [] OTHER -> t
    IN  IF account = ZeroAccount THEN Fail(t, "account not found")
        ELSE IF head_block.previous # ZeroHash /\ ~previous.some
        THEN Fail(t, "block not found")
        ELSE IF t1.err # "" THEN t1
        ELSE roll_back_head_block_apply(t1, head_block, account, current_account_info,
                 previous, previous_representative, previous_balance, sub_type)

\* mutant: an if instead of the while, only the head is removed
roll_back_while_once(t, block_hash, block) ==
    IF ~block_exists(t, block_hash) THEN t
    ELSE IF ~ensure_block_is_not_confirmed(t, block)
    THEN Fail(t, "AlreadyConfirmed")
    ELSE LET account_info == get_account_info(t, block)
             head_block == IF account_info.some
                           THEN load_block(t, account_info.v.head)
                           ELSE None
         IN  IF ~account_info.some THEN Fail(t, "panic")
             ELSE IF ~head_block.some THEN Fail(t, "block not found")
             ELSE LET t1 == roll_back_head_block(t, head_block.v)
                  IN  IF t1.err # "" THEN t1
                      ELSE [t1 EXCEPT !.rolled_back = Append(@, head_block.v.hash)]

\* the while loop of roll_back_block_hash; block was loaded once, before it
roll_back_while(t, block_hash, block) ==
    IF ~block_exists(t, block_hash) THEN t
    ELSE IF ~ensure_block_is_not_confirmed(t, block)
    THEN Fail(t, "AlreadyConfirmed")
    ELSE LET account_info == get_account_info(t, block)
             head_block == IF account_info.some
                           THEN load_block(t, account_info.v.head)
                           ELSE None
         IN  IF ~account_info.some THEN Fail(t, "panic")
             ELSE IF ~head_block.some THEN Fail(t, "block not found")
             ELSE LET t1 == roll_back_head_block(t, head_block.v)
                  IN  IF t1.err # "" THEN t1
                      ELSE roll_back_while(
                               [t1 EXCEPT !.rolled_back = Append(@, head_block.v.hash)],
                               block_hash, block)

roll_back_block_hash(t, block_hash) ==
    LET block == load_block(t, block_hash)
    IN  IF ~block.some THEN Fail(t, "block not found")
        ELSE roll_back_while(t, block_hash, block.v)

\* ======================================================= bootstrap server
\* rust/rsnano/src/bootstrap/bootstrap_server.rs
\* srv holds the response servers (one per accepted socket), the counters of
\* the observer they share, the statistics and the realtime message queue.
Servers == 1..NumServers
MessageTypes == {"node_id_handshake", "bulk_pull", "keepalive"}
SocketTypes == {"undefined", "realtime", "bootstrap"}
NodeId == 1
\* what a visitor does with a message is outside this file: any outcome
VisitorOutcomes ==
    [to_realtime : BOOLEAN, process : BOOLEAN, bootstrap : BOOLEAN,
     processed : BOOLEAN, debug_build : BOOLEAN]

NoMessage == [server |-> 0, message |-> "none", visited |-> <<>>, queued |-> FALSE]

ServerInit ==
    [alive |-> [s \in Servers |-> FALSE],
     stopped |-> [s \in Servers |-> FALSE],
     socket_type |-> [s \in Servers |-> "undefined"],
     remote_node_id |-> [s \in Servers |-> ZeroAccount],
     disable_bootstrap_listener |-> FALSE,
     disable_tcp_realtime |-> FALSE,
     pc |-> [s \in Servers |-> "receive"],
     message |-> [s \in Servers |-> "none"],
     bootstrap_count |-> 0,
     realtime_count |-> 0,
     stats |-> [m \in MessageTypes \cup {"error"} |-> 0],
     queue |-> <<>>,
     last |-> NoMessage]

is_undefined_connection(S, s) == S.socket_type[s] = "undefined"
is_bootstrap_connection(S, s) == S.socket_type[s] = "bootstrap"
is_realtime_connection(S, s) == S.socket_type[s] = "realtime"
set_socket_type(S, s, socket_type) == [S EXCEPT !.socket_type[s] = socket_type]

\* the observer (the listener that accepted the sockets)
get_bootstrap_count(S) == S.bootstrap_count
inc_bootstrap_count(S) == [S EXCEPT !.bootstrap_count = @ + 1]
inc_realtime_count(S) == [S EXCEPT !.realtime_count = @ + 1]
boostrap_server_exited(S, socket_type) ==
    CASE socket_type = "bootstrap" -> [S EXCEPT !.bootstrap_count = @ - 1]
      [] socket_type = "realtime" -> [S EXCEPT !.realtime_count = @ - 1]
      [] OTHER -> S

stats_inc(S, detail) == [S EXCEPT !.stats[detail] = @ + 1]
MessagesCounted(S) == S.stats["node_id_handshake"] + S.stats["bulk_pull"] + S.stats["keepalive"] + S.stats["error"]

\* lines 136-138: the condition of to_bootstrap_connection
to_bootstrap_connection_check(S, s) ==
    /\ S.socket_type[s] = "undefined"
    /\ ~S.disable_bootstrap_listener
    /\ get_bootstrap_count(S) < connections_max

\* lines 140-141: its body
to_bootstrap_connection_switch(S, s) ==
    set_socket_type(inc_bootstrap_count(S), s, "bootstrap")

\* mutant: the mode is not looked at
to_realtime_connection_any_mode(S, s, node_id) ==
    IF ~S.disable_tcp_realtime
    THEN set_socket_type(inc_realtime_count([S EXCEPT !.remote_node_id[s] = node_id]),
                         s, "realtime")
    ELSE S

\* lines 147-159
to_realtime_connection(S, s, node_id) ==
    IF S.socket_type[s] = "undefined" /\ ~S.disable_tcp_realtime
    THEN set_socket_type(inc_realtime_count([S EXCEPT !.remote_node_id[s] = node_id]),
                         s, "realtime")
    ELSE S

\* lines 191-198
queue_realtime(S, s, message) == [S EXCEPT !.queue = Append(@, <<s, message>>)]

\* a visitor visits the message; it may ask for the switch to realtime
visit(S, s, v) == IF v.to_realtime THEN to_realtime_connection(S, s, NodeId) ELSE S

\* the outcome of process_message: the state, the visitors that saw the
\* message, whether it was queued, and where the server goes on
Outcome(S, visited, queued, pc) ==
    [S |-> S, visited |-> visited, queued |-> queued, pc |-> pc]

\* lines 372-380
bootstrap_branch(S, s, v, visited) ==
    IF is_bootstrap_connection(S, s)
    THEN Outcome(visit(S, s, v), Append(visited, "bootstrap"), FALSE,
                 IF v.processed THEN "serving" ELSE "receive")
    ELSE IF v.debug_build
    THEN Outcome([S EXCEPT !.stopped[s] = TRUE], visited, FALSE, "receive")
    ELSE Outcome(S, visited, FALSE, "receive")

\* mutant: the message is queued whatever the visitor says
realtime_branch_always_queued(S, s, message, v) ==
    Outcome(queue_realtime(visit(S, s, v), s, message), <<"realtime">>, TRUE, "receive")

\* lines 361-370
realtime_branch(S, s, message, v) ==
    LET S1 == visit(S, s, v)
    IN  IF v.process
        THEN Outcome(queue_realtime(S1, s, message), <<"realtime">>, TRUE, "receive")
        ELSE Outcome(S1, <<"realtime">>, FALSE, "receive")

\* lines 345-360; pc "inc" is the server inside to_bootstrap_connection, its
\* condition read and its body not yet run
undefined_branch(S, s, message, v) ==
    LET S1 == visit(S, s, v)
    IN  IF v.process
        THEN Outcome(queue_realtime(S1, s, message), <<"handshake">>, TRUE, "receive")
        ELSE IF v.bootstrap
        THEN IF to_bootstrap_connection_check(S1, s)
             THEN Outcome(S1, <<"handshake">>, FALSE, "inc")
             ELSE bootstrap_branch(S1, s, v, <<"handshake">>)
        ELSE Outcome(S1, <<"handshake">>, FALSE, "receive")

\* lines 321-381
process_message(S, s, message, v) ==
    LET S1 == stats_inc(S, message)
    IN  IF is_undefined_connection(S1, s) THEN undefined_branch(S1, s, message, v)
        ELSE IF is_realtime_connection(S1, s) THEN realtime_branch(S1, s, message, v)
        ELSE bootstrap_branch(S1, s, v, <<>>)

Finish(r, s, message) ==
    [r.S EXCEPT !.pc[s] = r.pc,
                !.message[s] = IF r.pc = "inc" THEN message ELSE "none",
                !.last = [server |-> s, message |-> message,
                          visited |-> r.visited, queued |-> r.queued]]

\* the node flags every server is created with, set while none is alive
SetFlags ==
    /\ \A s \in Servers : ~srv.alive[s]
    /\ \E b, r \in BOOLEAN :
          /\ <<b, r>> # <<srv.disable_bootstrap_listener, srv.disable_tcp_realtime>>
          /\ srv' = [srv EXCEPT !.disable_bootstrap_listener = b,
                                !.disable_tcp_realtime = r]
    /\ UNCHANGED non_server_vars

\* a socket is accepted and its response server created (lines 67-114)
Accept(s) ==
    /\ ~srv.alive[s]
    /\ srv' = [srv EXCEPT !.alive[s] = TRUE, !.stopped[s] = FALSE,
                          !.socket_type[s] = "undefined",
                          !.remote_node_id[s] = ZeroAccount,
                          !.pc[s] = "receive", !.message[s] = "none"]
    /\ UNCHANGED non_server_vars

\* receive_message / received_message with a message (lines 268-319)
ReceiveMessage(s) ==
    /\ srv.alive[s] /\ ~srv.stopped[s] /\ srv.pc[s] = "receive"
    /\ MessagesCounted(srv) < MaxMessages
    /\ Len(srv.queue) < MaxQueue
    /\ \E message \in MessageTypes : \E v \in VisitorOutcomes :
          srv' = Finish(process_message(srv, s, message, v), s, message)
    /\ UNCHANGED non_server_vars

\* the rest of to_bootstrap_connection and of process_message (lines 140-144,
\* 372-380), run after other servers may have run
SwitchToBootstrap(s) ==
    /\ srv.alive[s] /\ srv.pc[s] = "inc"
    /\ \E v \in VisitorOutcomes :
          srv' = Finish(bootstrap_branch(to_bootstrap_connection_switch(srv, s), s, v,
                                         <<"handshake">>),
                        s, srv.message[s])
    /\ UNCHANGED non_server_vars

\* the bootstrap request was served, the server reads on
BootstrapServed(s) ==
    /\ srv.alive[s] /\ srv.pc[s] = "serving"
    /\ srv' = [srv EXCEPT !.pc[s] = "receive"]
    /\ UNCHANGED non_server_vars

\* the read failed: lines 277-286 and stop (lines 120-124)
ReceiveError(s) ==
    /\ srv.alive[s] /\ ~srv.stopped[s] /\ srv.pc[s] = "receive"
    /\ MessagesCounted(srv) < MaxMessages
    /\ srv' = [stats_inc(srv, "error") EXCEPT !.stopped[s] = TRUE]
    /\ UNCHANGED non_server_vars

\* Drop (lines 201-211)
DropServer(s) ==
    /\ srv.alive[s] /\ srv.stopped[s] /\ srv.pc[s] = "receive"
    /\ srv' = [boostrap_server_exited(srv, srv.socket_type[s])
                  EXCEPT !.alive[s] = FALSE, !.stopped[s] = TRUE]
    /\ UNCHANGED non_server_vars

\* the message processor takes a message off the realtime queue
DequeueRealtime ==
    /\ srv.queue # <<>>
    /\ srv' = [srv EXCEPT !.queue = Tail(@)]
    /\ UNCHANGED non_server_vars

ServerNext ==
    \/ SetFlags
    \/ \E s \in Servers : Accept(s)
    \/ \E s \in Servers : ReceiveMessage(s)
    \/ \E s \in Servers : SwitchToBootstrap(s)
    \/ \E s \in Servers : BootstrapServed(s)
    \/ \E s \in Servers : ReceiveError(s)
    \/ \E s \in Servers : DropServer(s)
    \/ DequeueRealtime

\* ------------------------------------------- the reads of a response server
\* rust/rsnano/src/bootstrap/bootstrap_server.rs, lines 116-124 and 240-319
\* io.reads[s] are the reads server s has handed to the deserializer and
\* that have not called back; a read is named by its place in the order of
\* arrival on the connection. io.processed[s] and io.queued[s] are the
\* frames given to process_message and to the realtime queue, in the order
\* this happened; io.socket_closed[s] counts the calls of socket.close().
Readers == 1..NumReaders
FrameIds == 1..(MaxReads + 1)
ParseStatuses ==
    {"success", "invalid_header", "invalid_message_type", "duplicate_publish_message"}
\* the statuses the deserializer gives a frame that breaks the protocol
ProtocolErrors == ParseStatuses \ {"success"}
\* a release build: debug_assert! does nothing
ReleaseOutcomes == {v \in VisitorOutcomes : ~v.debug_build}

NoRead == [op |-> "none", server |-> 0, frame |-> 0, ec |-> FALSE, status |-> "success", was_stopped |-> FALSE]

ReadInit ==
    [reads |-> [s \in Servers |-> {}],
     issued |-> [s \in Servers |-> 0],
     socket_closed |-> [s \in Servers |-> 0],
     processed |-> [s \in Servers |-> <<>>],
     queued |-> [s \in Servers |-> <<>>],
     last |-> NoRead]

\* the servers and their reads together
Both(S, I) == [S |-> S, io |-> I]

\* mutant: the flag is set but not looked at
server_stop_closes_again(R, s) ==
    [R EXCEPT !.S.stopped[s] = TRUE, !.io.socket_closed[s] = @ + 1]

\* lines 120-124
server_stop(R, s) ==
    IF ~R.S.stopped[s]
    THEN [R EXCEPT !.S.stopped[s] = TRUE, !.io.socket_closed[s] = @ + 1]
    ELSE R

\* mutant: two reads are handed to the deserializer
issue_read_twice(R, s) ==
    [R EXCEPT !.io.reads[s] = @ \cup {R.io.issued[s] + 1, R.io.issued[s] + 2},
              !.io.issued[s] = @ + 2]

\* lines 273-289: message_deserializer.read(socket, callback)
issue_read(R, s) ==
    [R EXCEPT !.io.reads[s] = @ \cup {R.io.issued[s] + 1},
              !.io.issued[s] = @ + 1]

\* lines 268-290
receive_message(R, s) == IF R.S.stopped[s] THEN R ELSE issue_read(R, s)

\* lines 321-381 as one call: to_bootstrap_connection runs to its end
process_message_to_end(S, s, message, v) ==
    LET r == process_message(S, s, message, v)
    IN  IF r.pc = "inc"
        THEN bootstrap_branch(to_bootstrap_connection_switch(r.S, s), s, v, r.visited)
        ELSE r

\* mutant: the answer of process_message is not looked at
received_message_reads_on(R, s, frame, message, v) ==
    IF message # "none"
    THEN LET r == process_message_to_end(R.S, s, message, v)
             I1 == [R.io EXCEPT !.processed[s] = Append(@, frame),
                                !.queued[s] = IF r.queued THEN Append(@, frame) ELSE @]
         IN  receive_message(Both(Finish(r, s, message), I1), s)
    ELSE receive_message(Both(stats_inc(R.S, "error"), R.io), s)

\* lines 292-319; message "none" is None
received_message(R, s, frame, message, v) ==
    IF message # "none"
    THEN LET r == process_message_to_end(R.S, s, message, v)
             I1 == [R.io EXCEPT !.processed[s] = Append(@, frame),
                                !.queued[s] = IF r.queued THEN Append(@, frame) ELSE @]
             R1 == Both(Finish(r, s, message), I1)
             should_continue == r.pc = "receive"
         IN  IF should_continue THEN receive_message(R1, s) ELSE R1
    ELSE receive_message(Both(stats_inc(R.S, "error"), R.io), s)

\* lines 276-288: the callback of the read
read_callback(R, s, frame, ec, message, v) ==
    IF ec
    THEN server_stop(Both(stats_inc(R.S, "error"), R.io), s)
    ELSE received_message(R, s, frame, message, v)

\* what a read can call back with: an error code, a message, or no message
\* and the status of the frame
ReadResults ==
    [ec : {TRUE}, message : {"none"}, status : ParseStatuses]
      \cup [ec : {FALSE}, message : MessageTypes, status : {"success"}]
      \cup [ec : {FALSE}, message : {"none"}, status : ProtocolErrors]

ReadCall(op, s, frame, ec, status, was_stopped) ==
    [op |-> op, server |-> s, frame |-> frame, ec |-> ec, status |-> status, was_stopped |-> was_stopped]

\* a socket is accepted, its server created and started (lines 67-114, 242-253)
StartServer(s) ==
    /\ s \in Readers /\ ~srv.alive[s] /\ io.issued[s] = 0
    /\ LET S1 == [srv EXCEPT !.alive[s] = TRUE, !.stopped[s] = FALSE,
                             !.socket_type[s] = "undefined",
                             !.remote_node_id[s] = ZeroAccount,
                             !.pc[s] = "receive", !.message[s] = "none"]
           R == receive_message(Both(S1, io), s)
       IN  /\ srv' = R.S
           /\ io' = [R.io EXCEPT !.last = ReadCall("start", s, 0, FALSE, "success", FALSE)]
    /\ UNCHANGED non_read_vars

\* a read calls back, whether or not the server was stopped meanwhile
ReadCompleted(s) ==
    /\ srv.alive[s] /\ io.issued[s] <= MaxReads
    /\ \E frame \in io.reads[s] : \E c \in ReadResults : \E v \in ReleaseOutcomes :
          LET I1 == [io EXCEPT !.reads[s] = @ \ {frame}]
              R == read_callback(Both(srv, I1), s, frame, c.ec, c.message, v)
          IN  /\ srv' = R.S
              /\ io' = [R.io EXCEPT !.last = ReadCall("read", s, frame, c.ec, c.status, srv.stopped[s])]
    /\ UNCHANGED non_read_vars

\* the bootstrap request was served and the server started again
StartAgain(s) ==
    /\ srv.alive[s] /\ srv.pc[s] = "serving"
    /\ LET R == receive_message(Both([srv EXCEPT !.pc[s] = "receive"], io), s)
       IN  /\ srv' = R.S
           /\ io' = [R.io EXCEPT !.last = ReadCall("start", s, 0, FALSE, "success", srv.stopped[s])]
    /\ UNCHANGED non_read_vars

\* stop is called from outside (the listener, the node), any number of times
StopServer(s) ==
    /\ srv.alive[s]
    /\ LET R == server_stop(Both(srv, io), s)
       IN  /\ srv' = R.S
           /\ io' = [R.io EXCEPT !.last = ReadCall("stop", s, 0, FALSE, "success", srv.stopped[s])]
    /\ UNCHANGED non_read_vars

\* Drop (lines 201-211), once no read and no request holds the server
DropStarted(s) ==
    /\ srv.alive[s] /\ io.reads[s] = {} /\ srv.pc[s] = "receive"
    /\ LET S1 == [boostrap_server_exited(srv, srv.socket_type[s]) EXCEPT !.alive[s] = FALSE]
           R == server_stop(Both(S1, io), s)
       IN  /\ srv' = R.S
           /\ io' = [R.io EXCEPT !.last = ReadCall("drop", s, 0, FALSE, "success", srv.stopped[s])]
    /\ UNCHANGED non_read_vars

ReadNext ==
    \/ \E s \in Servers : StartServer(s)
    \/ \E s \in Servers : ReadCompleted(s)
    \/ \E s \in Servers : StartAgain(s)
    \/ \E s \in Servers : StopServer(s)
    \/ \E s \in Servers : DropStarted(s)
    \/ DequeueRealtime

\* ================================================================ network
\* The channel table of the node (rust/node/src/transport/network.rs and
\* network_info.rs).  An endpoint is a pair <<ip, port>>; ip 0 is the
\* unspecified address.  Every address of the model is IPv4-mapped.  The
\* statistics counters of the network are write-only and left out.
Ips == 0..NumIps
Ports == 1..NumPorts
Endpoints == Ips \X Ports
\* the nodes listen on the first port; an inbound connection comes from a
\* specified address and an ephemeral port
FirstPort == CHOOSE p \in Ports : \A q \in Ports : p <= q
PeeringEndpoints == (Ips \ {0}) \X {FirstPort}
InboundEndpoints == (Ips \ {0}) \X (Ports \ {FirstPort})
NoEndpoint == <<>>
ChannelIds == 1..MaxChannels
ChannelModes == {"Undefined", "Bootstrap", "Realtime"}
ChannelDirections == {"Inbound", "Outbound"}
NodeIds == 1..NumNodeIds
NoNodeId == 0

\* an IPv4-mapped address is its own key; the addresses 1.. share a subnetwork
ipv4_address_or_ipv6_subnet(address) == address
map_address_to_subnetwork(address) == IF address = 0 THEN 0 ELSE 1

NoNetCall == [op |-> "none", peer |-> NoEndpoint, direction |-> "", accepted |-> FALSE, ids |-> {}, sample |-> <<>>]

\* no connection attempt is in flight: the connector that records attempts is
\* not part of the model, and the table of attempts stays empty
NetInit ==
    [info |-> Empty, channels |-> {}, next_channel_id |-> 1, stopped |-> FALSE,
     excluded_peers |-> {}, attempts |-> {}, clock |-> 0,
     disable_tcp_realtime |-> FALSE, disable_max_peers_per_ip |-> FALSE,
     disable_max_peers_per_subnetwork |-> FALSE, last |-> NoNetCall]

\* ChannelInfo::new
ChannelInfo_new(channel_id, peer_addr, direction, time) ==
    [channel_id |-> channel_id, peer_addr |-> peer_addr, direction |-> direction,
     mode |-> "Undefined", closed |-> FALSE, node_id |-> NoNodeId,
     last_packet_received |-> time,
     peering_addr |-> IF direction = "Outbound" THEN peer_addr ELSE NoEndpoint]

is_closed(n, id) == n.info[id].closed
is_alive(n, id) == ~is_closed(n, id)
close(n, id) == [n EXCEPT !.info[id].closed = TRUE]
set_mode(n, id, mode) == [n EXCEPT !.info[id].mode = mode]
set_node_id(n, id, node_id) == [n EXCEPT !.info[id].node_id = node_id]
set_peering_addr(n, id, peering_addr) == [n EXCEPT !.info[id].peering_addr = peering_addr]
set_last_packet_received(n, id, instant) == [n EXCEPT !.info[id].last_packet_received = instant]

\* NetworkInfo::add with get_next_channel_id
info_add(n, peer_addr, direction) ==
    [n EXCEPT !.info = Put(@, n.next_channel_id, ChannelInfo_new(n.next_channel_id, peer_addr, direction, n.clock)),
              !.next_channel_id = @ + 1]

\* ---- ChannelContainer: the channels of State, by id
count_by_mode(n, mode) == Cardinality({id \in n.channels : n.info[id].mode = mode})
count_by_ip(n, address) == Cardinality({id \in n.channels : ipv4_address_or_ipv6_subnet(n.info[id].peer_addr[1]) = address})
count_by_subnet(n, subnet) == Cardinality({id \in n.channels : map_address_to_subnetwork(n.info[id].peer_addr[1]) = subnet})
get_by_remote_addr(n, remote_addr) == {id \in n.channels : n.info[id].peer_addr = remote_addr}
get_by_peering_addr(n, peering_addr) == {id \in n.channels : n.info[id].peering_addr = peering_addr}
get_by_node_id(n, node_id) == {id \in n.channels : n.info[id].node_id = node_id}

\* ---- the parts of NetworkInfo that decide on its own table
info_count_by_ip(n, address) == Cardinality({id \in DOMAIN n.info : ipv4_address_or_ipv6_subnet(n.info[id].peer_addr[1]) = address})
info_count_by_subnet(n, subnet) == Cardinality({id \in DOMAIN n.info : map_address_to_subnetwork(n.info[id].peer_addr[1]) = subnet})
info_count_by_direction(n, direction) == Cardinality({id \in DOMAIN n.info : n.info[id].direction = direction})
is_excluded(n, peer_addr) == peer_addr[1] \in n.excluded_peers
not_a_peer(n, peer) == peer[1] = 0
attempts_count_by_address(n, address) == Cardinality({a \in n.attempts : ipv4_address_or_ipv6_subnet(a[1]) = address})
attempts_count_by_subnetwork(n, subnet) == Cardinality({a \in n.attempts : map_address_to_subnetwork(a[1]) = subnet})

\* NetworkInfo::check_limits: the listener stopped, the cap per address, the
\* cap per subnetwork and the cap on inbound connections
check_limits(n, peer, direction) ==
    IF n.stopped THEN "Rejected"
    ELSE IF ~n.disable_max_peers_per_ip
            /\ info_count_by_ip(n, ipv4_address_or_ipv6_subnet(peer[1])) >= max_peers_per_ip
         THEN "Rejected"
    ELSE IF ~n.disable_max_peers_per_subnetwork
            /\ info_count_by_subnet(n, map_address_to_subnetwork(peer[1])) >= max_peers_per_subnetwork
         THEN "Rejected"
    ELSE IF direction = "Inbound"
            /\ info_count_by_direction(n, "Inbound") >= max_inbound_connections
         THEN "Rejected"
    ELSE "Accepted"

\* NetworkInfo::purge: the ids of the channels that received nothing since cutoff
info_purge_ids(n, cutoff) == {id \in DOMAIN n.info : n.info[id].last_packet_received < cutoff}
info_purge(n, cutoff) == [n EXCEPT !.info = [id \in (DOMAIN @) \ info_purge_ids(n, cutoff) |-> @[id]]]

\* ---- Network and State
max_ip_connections(n, endpoint) ==
    IF n.disable_max_peers_per_ip THEN FALSE
    ELSE LET address == ipv4_address_or_ipv6_subnet(endpoint[1])
         IN  \/ count_by_ip(n, address) >= max_peers_per_ip
             \/ attempts_count_by_address(n, address) >= max_peers_per_ip

max_subnetwork_connections(n, endpoint) ==
    IF n.disable_max_peers_per_subnetwork THEN FALSE
    ELSE LET subnet == map_address_to_subnetwork(endpoint[1])
         IN  \/ count_by_subnet(n, subnet) >= max_peers_per_subnetwork
             \/ attempts_count_by_subnetwork(n, subnet) >= max_peers_per_subnetwork

max_ip_or_subnetwork_connections(n, endpoint) ==
    max_ip_connections(n, endpoint) \/ max_subnetwork_connections(n, endpoint)

\* a variant that finds closed channels too
find_channels_by_remote_addr_closed_included(n, remote_addr) == get_by_remote_addr(n, remote_addr)

find_channels_by_remote_addr(n, remote_addr) == {id \in get_by_remote_addr(n, remote_addr) : is_alive(n, id)}

find_channels_by_peering_addr(n, peering_addr) == {id \in get_by_peering_addr(n, peering_addr) : is_alive(n, id)}

can_add_outbound_connection(n, peer, planned_mode) ==
    IF n.disable_tcp_realtime THEN FALSE
    ELSE IF not_a_peer(n, peer) THEN FALSE
    ELSE IF max_ip_or_subnetwork_connections(n, peer) THEN FALSE
    ELSE IF is_excluded(n, peer) THEN FALSE
    ELSE IF \E c \in find_channels_by_remote_addr(n, peer) :
                n.info[c].mode = planned_mode \/ n.info[c].mode = "Undefined"
         THEN FALSE
    ELSE IF \E c \in find_channels_by_peering_addr(n, peer) :
                n.info[c].mode = planned_mode \/ n.info[c].mode = "Undefined"
         THEN FALSE
    ELSE IF check_limits(n, peer, "Outbound") # "Accepted" THEN FALSE
    ELSE TRUE

\* a variant that admits every inbound connection that is not excluded
can_add_connection_inbound_unchecked(n, peer_addr, direction, planned_mode) ==
    IF is_excluded(n, peer_addr) THEN "Rejected"
    ELSE IF direction = "Outbound"
         THEN IF can_add_outbound_connection(n, peer_addr, planned_mode)
              THEN "Accepted" ELSE "Rejected"
    ELSE "Accepted"

can_add_connection(n, peer_addr, direction, planned_mode) ==
    IF is_excluded(n, peer_addr) THEN "Rejected"
    ELSE IF direction = "Outbound"
         THEN IF can_add_outbound_connection(n, peer_addr, planned_mode)
              THEN "Accepted" ELSE "Rejected"
    ELSE check_limits(n, peer_addr, direction)

\* min_version is an u8 and every caller modelled passes 0: no channel is too old
list_realtime(n, min_version) ==
    {id \in n.channels : is_alive(n, id) /\ n.info[id].mode = "Realtime"}

\* the least k with k >= sqrt(count) * scale, scale being num / den; the f32
\* square root is exact enough for ceil to give this k on the counts modelled
CeilScaledSqrt(count, num, den) ==
    CHOOSE k \in 0..(count * num + 1) :
        /\ k * k * den * den >= count * num * num
        /\ k = 0 \/ (k - 1) * (k - 1) * den * den < count * num * num

\* len_sqrt and fanout: the square root of the number of channels in
\* Realtime mode, scaled and rounded up
fanout(n, num, den) == CeilScaledSqrt(count_by_mode(n, "Realtime"), num, den)

\* the sequences without repetition over a set: what shuffle can produce
Shuffles(S) == {s \in [1..Cardinality(S) -> S] : \A i, j \in 1..Cardinality(S) : i # j => s[i] # s[j]}

truncate(s, len) == IF len < Len(s) THEN SubSeq(s, 1, len) ELSE s

\* every vector random_realtime_channels may return
random_realtime_channels(n, count, min_version) ==
    {IF count > 0 THEN truncate(s, count) ELSE s : s \in Shuffles(list_realtime(n, min_version))}

random_fanout_realtime(n, num, den) == random_realtime_channels(n, fanout(n, num, den), 0)

NetCall(op, peer, direction, accepted, ids, sample) ==
    [op |-> op, peer |-> peer, direction |-> direction, accepted |-> accepted, ids |-> ids, sample |-> sample]

\* the node flags, set before the first connection: the default flags, or
\* one flag set
NetSetFlags ==
    /\ net.next_channel_id = 1 /\ net.attempts = {} /\ ~net.stopped /\ net.clock = 0
    /\ \E r, i, s \in BOOLEAN :
          /\ Cardinality({f \in {<<1, r>>, <<2, i>>, <<3, s>>} : f[2]}) <= 1
          /\ <<r, i, s>> # <<net.disable_tcp_realtime, net.disable_max_peers_per_ip, net.disable_max_peers_per_subnetwork>>
          /\ net' = [net EXCEPT !.disable_tcp_realtime = r,
                                !.disable_max_peers_per_ip = i,
                                !.disable_max_peers_per_subnetwork = s,
                                !.last = NoNetCall]
    /\ UNCHANGED non_net_vars

\* Network::add (lines 146-221)
add(n, peer_addr, direction, planned_mode) ==
    IF can_add_connection(n, peer_addr, direction, planned_mode) # "Accepted"
    THEN [n EXCEPT !.last = NetCall("add", peer_addr, direction, FALSE, {}, <<>>)]
    ELSE [info_add(n, peer_addr, direction)
             EXCEPT !.channels = @ \cup {n.next_channel_id},
                    !.last = NetCall("add", peer_addr, direction, TRUE, {n.next_channel_id}, <<>>)]

AddUpTo(max_channels) ==
    \E peer_addr \in Endpoints, direction \in ChannelDirections, planned_mode \in {"Bootstrap", "Realtime"} :
        /\ direction = "Inbound" => peer_addr \in InboundEndpoints
        /\ can_add_connection(net, peer_addr, direction, planned_mode) = "Accepted"
              => net.next_channel_id <= max_channels
        /\ net' = add(net, peer_addr, direction, planned_mode)
        /\ UNCHANGED non_net_vars

Add == AddUpTo(MaxChannels)

\* the same call in a network that may hold one channel more
AddPeer == AddUpTo(MaxPeers)

\* Network::set_peering_addr (lines 478-483): the peer of an inbound channel
\* names the port it listens on
SetPeeringAddr ==
    /\ \E id \in net.channels, peering_addr \in PeeringEndpoints :
          /\ net.info[id].direction = "Inbound"
          /\ net.info[id].peering_addr = NoEndpoint
          /\ peering_addr[1] = net.info[id].peer_addr[1]
          /\ net' = [set_peering_addr(net, id, peering_addr) EXCEPT !.last = NoNetCall]
    /\ UNCHANGED non_net_vars

\* Network::upgrade_to_realtime_connection (lines 541-592); other is the
\* channel get_by_node_id finds
upgrade_to_realtime_connection(n, channel_id, node_id, other) ==
    IF n.stopped THEN [n EXCEPT !.last = NoNetCall]
    ELSE IF channel_id \notin n.channels THEN [n EXCEPT !.last = NoNetCall]
    ELSE IF /\ other \in n.channels
            /\ ipv4_address_or_ipv6_subnet(n.info[other].peer_addr[1]) = ipv4_address_or_ipv6_subnet(n.info[channel_id].peer_addr[1])
         THEN [n EXCEPT !.last = NoNetCall]
    ELSE [set_mode(set_node_id(n, channel_id, node_id), channel_id, "Realtime")
             EXCEPT !.last = NoNetCall]

\* the value the call returns
upgrade_to_realtime_connection_result(n, channel_id, node_id, other) ==
    /\ ~n.stopped
    /\ channel_id \in n.channels
    /\ ~(/\ other \in n.channels
         /\ ipv4_address_or_ipv6_subnet(n.info[other].peer_addr[1]) = ipv4_address_or_ipv6_subnet(n.info[channel_id].peer_addr[1]))

\* the channel get_by_node_id may give: one of those under the node id
OthersOf(n, node_id) == IF get_by_node_id(n, node_id) = {} THEN {0} ELSE get_by_node_id(n, node_id)

UpgradeToRealtime ==
    /\ \E channel_id \in ChannelIds \cup net.channels, node_id \in NodeIds :
          \E other \in IF get_by_node_id(net, node_id) = {} THEN {0} ELSE get_by_node_id(net, node_id) :
              net' = upgrade_to_realtime_connection(net, channel_id, node_id, other)
    /\ UNCHANGED non_net_vars

\* ChannelInfo::set_mode (lines 192-194): the response server of the
\* connection serves a bootstrap request
SetModeBootstrap ==
    /\ \E id \in net.channels :
          /\ net.info[id].mode = "Undefined"
          /\ net' = [set_mode(net, id, "Bootstrap") EXCEPT !.last = NoNetCall]
    /\ UNCHANGED non_net_vars

\* Network::peer_misbehaved (lines 499-523); banned tells whether the
\* misbehaviour fills the window of the exclusion table
peer_misbehaved(n, channel_id, banned) ==
    IF channel_id \notin n.channels THEN [n EXCEPT !.last = NoNetCall]
    ELSE [close(n, channel_id)
             EXCEPT !.excluded_peers = IF banned THEN @ \cup {n.info[channel_id].peer_addr[1]} ELSE @,
                    !.last = NoNetCall]

PeerMisbehaved ==
    /\ \E channel_id \in ChannelIds, banned \in BOOLEAN :
          net' = peer_misbehaved(net, channel_id, banned)
    /\ UNCHANGED non_net_vars

\* ChannelInfo::close (lines 175-178): the connection timed out or failed
CloseChannel ==
    /\ \E id \in DOMAIN net.info :
          /\ is_alive(net, id)
          /\ net' = [close(net, id) EXCEPT !.last = NoNetCall]
    /\ UNCHANGED non_net_vars

\* ChannelInfo::set_last_packet_received (lines 208-210)
ReceivePacket ==
    /\ \E id \in DOMAIN net.info :
          /\ is_alive(net, id)
          /\ net.info[id].last_packet_received # net.clock
          /\ net' = [set_last_packet_received(net, id, net.clock) EXCEPT !.last = NoNetCall]
    /\ UNCHANGED non_net_vars

NetTick ==
    /\ net.clock < MaxNetTime
    /\ net' = [net EXCEPT !.clock = @ + 1, !.last = NoNetCall]
    /\ UNCHANGED non_net_vars

\* a variant that leaves the purged channels in the container
purge_container_kept(n, cutoff) ==
    [info_purge(n, cutoff)
        EXCEPT !.last = NetCall("purge", NoEndpoint, "", TRUE, info_purge_ids(n, cutoff), <<cutoff>>)]

\* Network::purge (lines 445-452)
purge(n, cutoff) ==
    LET channel_ids == info_purge_ids(n, cutoff)
    IN  [info_purge(n, cutoff)
            EXCEPT !.channels = @ \ channel_ids,
                   !.last = NetCall("purge", NoEndpoint, "", TRUE, channel_ids, <<cutoff>>)]

Purge ==
    /\ \E cutoff \in 0..(net.clock + 1) : net' = purge(net, cutoff)
    /\ UNCHANGED non_net_vars

\* Network::random_fanout_realtime (lines 257-259, 701-703), scale 1.0
RandomFanout ==
    /\ \E sample \in random_fanout_realtime(net, 1, 1) :
          net' = [net EXCEPT !.last = NetCall("random_fanout_realtime", NoEndpoint, "", TRUE, {}, sample)]
    /\ UNCHANGED non_net_vars

null_endpoint == <<0, 0>>

\* mutant: the channels without a peering address are kept
random_fill_realtime_all_peers(n, slots) ==
    {[i \in 1..slots |-> IF i <= Len(truncate(s, slots)) /\ n.info[s[i]].peering_addr # NoEndpoint
                         THEN n.info[s[i]].peering_addr ELSE null_endpoint]
        : s \in Shuffles(list_realtime(n, 0))}

\* State::random_fill_realtime (lines 705-723): every content the slots may
\* be given
random_fill_realtime(n, slots) ==
    LET peers == {id \in list_realtime(n, 0) : n.info[id].peering_addr # NoEndpoint}
    IN  {[i \in 1..slots |-> IF i <= Len(truncate(s, slots))
                             THEN n.info[s[i]].peering_addr ELSE null_endpoint]
            : s \in Shuffles(peers)}

\* Network::random_fill_peering_endpoints on an array of MaxSlots endpoints
\* or fewer
RandomFill ==
    /\ \E slots \in 1..MaxSlots : \E endpoints \in random_fill_realtime(net, slots) :
          net' = [net EXCEPT !.last = NetCall("random_fill_realtime", NoEndpoint, "", TRUE, {}, endpoints)]
    /\ UNCHANGED non_net_vars

\* Network::stop (lines 227-235) with State::close_channels (lines 634-639)
stop(n) ==
    IF n.stopped THEN n
    ELSE [n EXCEPT !.stopped = TRUE,
                   !.info = [id \in DOMAIN @ |-> IF id \in n.channels THEN [@[id] EXCEPT !.closed = TRUE] ELSE @[id]],
                   !.channels = {}]

Stop ==
    /\ ~net.stopped
    /\ net' = [stop(net) EXCEPT !.last = NoNetCall]
    /\ UNCHANGED non_net_vars

\* connections admitted, upgraded, closed and purged within one second
NetworkNext ==
    \/ NetSetFlags
    \/ Add
    \/ SetPeeringAddr
    \/ UpgradeToRealtime
    \/ SetModeBootstrap
    \/ PeerMisbehaved
    \/ CloseChannel
    \/ Purge
    \/ RandomFanout
    \/ Stop

\* channels receiving packets while the clock runs, purged now and then
IdleNext ==
    \/ Add
    \/ UpgradeToRealtime
    \/ CloseChannel
    \/ ReceivePacket
    \/ NetTick
    \/ Purge
    \/ Stop

\* ===================================================== read transactions
\* LmdbReadTransaction (rust/store_lmdb/src/lib.rs lines 129-225) and the
\* TransactionTracker it reports to.  A transaction is created once under
\* its txn_id; "None" is a transaction not yet created, "Failed" one whose
\* begin_ro_txn failed, "Dropped" one that was dropped.
TxnIds == 1..NumTxns
RoTxnStates == {"None", "Failed", "Active", "Inactive", "Transitioning", "Dropped"}

LmdbInit == [txn |-> [id \in TxnIds |-> "None"], tracker |-> <<>>, panicked |-> {}]

\* TransactionTracker::txn_start / txn_end, is_write = false
txn_start(L, txn_id) == [L EXCEPT !.tracker = Append(@, <<"txn_start", txn_id>>)]
txn_end(L, txn_id) == [L EXCEPT !.tracker = Append(@, <<"txn_end", txn_id>>)]

panic(L, txn_id) == [L EXCEPT !.txn[txn_id] = "Transitioning", !.panicked = @ \cup {txn_id}]

\* LmdbReadTransaction::new
read_txn_new(L, txn_id, begun) ==
    IF ~begun THEN [L EXCEPT !.txn[txn_id] = "Failed"]
    ELSE txn_start([L EXCEPT !.txn[txn_id] = "Active"], txn_id)

\* a variant that ends only a transaction that is active
read_txn_drop_active_only(L, txn_id) ==
    IF L.txn[txn_id] = "Active"
    THEN txn_end([L EXCEPT !.txn[txn_id] = "Dropped"], txn_id)
    ELSE [L EXCEPT !.txn[txn_id] = "Dropped"]

\* Drop for LmdbReadTransaction
read_txn_drop(L, txn_id) == txn_end([L EXCEPT !.txn[txn_id] = "Dropped"], txn_id)

\* ReadTransaction::reset
read_txn_reset(L, txn_id) ==
    IF L.txn[txn_id] = "Active"
    THEN txn_end([L EXCEPT !.txn[txn_id] = "Inactive"], txn_id)
    ELSE panic(L, txn_id)

\* ReadTransaction::renew
read_txn_renew(L, txn_id) ==
    IF L.txn[txn_id] = "Inactive"
    THEN txn_start([L EXCEPT !.txn[txn_id] = "Active"], txn_id)
    ELSE panic(L, txn_id)

\* ReadTransaction::refresh
read_txn_refresh(L, txn_id) ==
    LET after_reset == read_txn_reset(L, txn_id)
    IN  IF txn_id \in after_reset.panicked THEN after_reset
        ELSE read_txn_renew(after_reset, txn_id)

\* the transactions that exist and were not abandoned by a panic
Usable(L) == {id \in TxnIds : L.txn[id] \in {"Active", "Inactive"}}

TxnNew ==
    /\ \E txn_id \in TxnIds, begun \in BOOLEAN :
          /\ lmdb.txn[txn_id] = "None"
          /\ \A other \in TxnIds : other < txn_id => lmdb.txn[other] # "None"
          /\ Len(lmdb.tracker) < MaxTxnCalls
          /\ lmdb' = read_txn_new(lmdb, txn_id, begun)
    /\ UNCHANGED non_lmdb_vars

TxnReset ==
    /\ \E txn_id \in Usable(lmdb) :
          /\ Len(lmdb.tracker) < MaxTxnCalls
          /\ lmdb' = read_txn_reset(lmdb, txn_id)
    /\ UNCHANGED non_lmdb_vars

TxnRenew ==
    /\ \E txn_id \in Usable(lmdb) :
          /\ Len(lmdb.tracker) < MaxTxnCalls
          /\ lmdb' = read_txn_renew(lmdb, txn_id)
    /\ UNCHANGED non_lmdb_vars

TxnRefresh ==
    /\ \E txn_id \in Usable(lmdb) :
          /\ Len(lmdb.tracker) + 1 < MaxTxnCalls
          /\ lmdb' = read_txn_refresh(lmdb, txn_id)
    /\ UNCHANGED non_lmdb_vars

\* a transaction is dropped by its owner, or while a panic unwinds
TxnDrop ==
    /\ \E txn_id \in TxnIds :
          /\ lmdb.txn[txn_id] \in {"Active", "Inactive", "Transitioning"}
          /\ Len(lmdb.tracker) < MaxTxnCalls
          /\ lmdb' = read_txn_drop(lmdb, txn_id)
    /\ UNCHANGED non_lmdb_vars

TxnNext == TxnNew \/ TxnReset \/ TxnRenew \/ TxnRefresh \/ TxnDrop

\* ===================================================== websocket sessions
\* WebsocketSession (rust/node/src/websocket/websocket_session.rs): the
\* subscriptions of a session are guarded by the lock of its entry, the
\* counts of subscribers are atomic integers shared by all sessions.  A
\* session changes its map and then the count while it holds its own lock;
\* the steps of different sessions interleave.
Sessions == 1..NumSessions
SubscribedTopics == {"confirmation", "vote"}
IncomingTopics == SubscribedTopics \cup {"invalid"}
UsizeModulus == 2 ^ UsizeBits

NoStep == [op |-> "none", topics |-> {}]
NoWsCall == [action |-> "", session |-> 0, topic |-> "", changed |-> FALSE]

WsInit ==
    [subscriptions |-> [s \in Sessions |-> {}],
     live |-> [s \in Sessions |-> TRUE],
     topic_subscriber_count |-> [topic \in SubscribedTopics |-> 0],
     step |-> [s \in Sessions |-> NoStep],
     wrapped |-> FALSE,
     last |-> NoWsCall]

\* AtomicUsize::fetch_add(1) / fetch_sub(1): both wrap around
fetch_add(W, topic) ==
    [W EXCEPT !.topic_subscriber_count[topic] = (@ + 1) % UsizeModulus,
              !.wrapped = @ \/ W.topic_subscriber_count[topic] = UsizeModulus - 1]
fetch_sub(W, topic) ==
    [W EXCEPT !.topic_subscriber_count[topic] = (@ - 1 + UsizeModulus) % UsizeModulus,
              !.wrapped = @ \/ W.topic_subscriber_count[topic] = 0]

WsCall(action, s, topic, changed) == [action |-> action, session |-> s, topic |-> topic, changed |-> changed]

\* a variant that counts every subscribe
subscribe_counted_always(W, s, topic) ==
    [W EXCEPT !.subscriptions[s] = @ \cup {topic},
              !.step[s] = [op |-> "fetch_add", topics |-> {topic}],
              !.last = WsCall("subscribe", s, topic, topic \notin W.subscriptions[s])]

\* handle_message, action "subscribe" (lines 162-188): subs.insert
subscribe(W, s, topic) ==
    LET inserted == topic \notin W.subscriptions[s]
    IN  [W EXCEPT !.subscriptions[s] = @ \cup {topic},
                  !.step[s] = IF inserted THEN [op |-> "fetch_add", topics |-> {topic}] ELSE NoStep,
                  !.last = WsCall("subscribe", s, topic, inserted)]

\* handle_message, action "unsubscribe" (lines 197-207): subs.remove
unsubscribe(W, s, topic) ==
    LET removed == topic \in W.subscriptions[s]
    IN  [W EXCEPT !.subscriptions[s] = @ \ {topic},
                  !.step[s] = IF removed THEN [op |-> "fetch_sub", topics |-> {topic}] ELSE NoStep,
                  !.last = WsCall("unsubscribe", s, topic, removed)]

\* handle_message (lines 158-214) up to the change of the map; a message
\* with another action or an invalid topic changes neither map nor count
handle_message(W, s, action, topic) ==
    IF action = "subscribe" /\ topic # "invalid" THEN subscribe(W, s, topic)
    ELSE IF action = "unsubscribe" /\ topic # "invalid" THEN unsubscribe(W, s, topic)
    ELSE [W EXCEPT !.last = WsCall(action, s, topic, FALSE)]

\* Drop for WebsocketSession (lines 242-250): the session ends, and the
\* count of every topic of its map is to be decremented
drop_session(W, s) ==
    [W EXCEPT !.live[s] = FALSE,
              !.step[s] = IF W.subscriptions[s] = {} THEN NoStep
                          ELSE [op |-> "fetch_sub", topics |-> W.subscriptions[s]],
              !.last = WsCall("drop", s, "", W.subscriptions[s] # {})]

\* the fetch_add or fetch_sub a session has come to, for one of the topics
count_step(W, s, topic) ==
    LET counted == IF W.step[s].op = "fetch_add" THEN fetch_add(W, topic) ELSE fetch_sub(W, topic)
        left == W.step[s].topics \ {topic}
    IN  [counted EXCEPT !.step[s] = IF left = {} THEN NoStep ELSE [@ EXCEPT !.topics = left]]

HandleMessage ==
    /\ \E s \in Sessions, action \in {"subscribe", "unsubscribe", "update"}, topic \in IncomingTopics :
          /\ ws.live[s] /\ ws.step[s] = NoStep
          /\ ws' = handle_message(ws, s, action, topic)
    /\ UNCHANGED non_ws_vars

DropSession ==
    /\ \E s \in Sessions :
          /\ ws.live[s] /\ ws.step[s] = NoStep
          /\ ws' = drop_session(ws, s)
    /\ UNCHANGED non_ws_vars

CountStep ==
    /\ \E s \in Sessions :
          /\ ws.step[s] # NoStep
          /\ \E topic \in ws.step[s].topics : ws' = count_step(ws, s, topic)
    /\ UNCHANGED non_ws_vars

WsNext == HandleMessage \/ DropSession \/ CountStep

\* ============================================================ tcp channel
\* The send path of one channel (rust/node/src/transport/channel_tcp.rs) with
\* the statistics it counts in (rust/node/src/stats/stats.rs).
SentMessages == {"Keepalive", "Publish"}
BufferDropPolicies == {"Limiter", "NoLimiterDrop", "NoSocketDrop"}
TrafficTypes == {"Generic", "Bootstrap"}
LimitTypes == {"Standard", "Bootstrap"}
StatTypes == {"Message", "Drop"}

\* From<MessageType> for DetailType
DetailType_from(msg) == CASE msg = "Keepalive" -> "keepalive" [] msg = "Publish" -> "publish"
DetailTypes == {DetailType_from(m) : m \in SentMessages} \cup {"all"}
\* From<TrafficType> for BandwidthLimitType
BandwidthLimitType_from(traffic_type) == IF traffic_type = "Bootstrap" THEN "Bootstrap" ELSE "Standard"

NoSend == [op |-> "none", message |-> "", drop_policy |-> "", traffic_type |-> "", limiter_asked |-> FALSE, should_pass |-> FALSE, written |-> FALSE]

TcpInit ==
    [clock |-> 0, last_packet_sent |-> 0,
     counters |-> [k \in StatTypes \X DetailTypes |-> 0],
     socket_writes |-> 0,
     tokens |-> [l \in LimitTypes |-> MaxTokens],
     last |-> NoSend]

\* Stats::add_dir, direction Out: the counter and the counter of all details
add_dir(t, stat_type, detail, value) ==
    IF value = 0 THEN t
    ELSE [t EXCEPT !.counters = [k \in DOMAIN @ |->
              IF k = <<stat_type, detail>> \/ k = <<stat_type, "all">> THEN @[k] + value ELSE @[k]]]

inc_dir_aggregate(t, stat_type, detail) == add_dir(t, stat_type, detail, 1)

count(t, stat_type, detail) == t.counters[<<stat_type, detail>>]

\* OutboundBandwidthLimiter::should_pass: a token bucket per limit type; a
\* buffer passes when a token is left for it, and takes it
should_pass(t, limit_type) == t.tokens[limit_type] > 0
should_pass_taken(t, limit_type) ==
    IF should_pass(t, limit_type) THEN [t EXCEPT !.tokens[limit_type] = @ - 1] ELSE t

\* Socket::try_write and a Socket::write that succeeds: the buffer is with the socket
socket_write(t) == [t EXCEPT !.socket_writes = @ + 1]

\* try_send (lines 189-214)
try_send(t, message, drop_policy, traffic_type) ==
    LET is_droppable_by_limiter == drop_policy = "Limiter"
        passed == should_pass(t, BandwidthLimitType_from(traffic_type))
        asked == should_pass_taken(t, BandwidthLimitType_from(traffic_type))
        call == [op |-> "try_send", message |-> message, drop_policy |-> drop_policy,
                 traffic_type |-> traffic_type, limiter_asked |-> TRUE, should_pass |-> passed,
                 written |-> ~is_droppable_by_limiter \/ passed]
    IN  IF ~is_droppable_by_limiter \/ passed
        THEN [inc_dir_aggregate(socket_write(asked), "Message", DetailType_from(message)) EXCEPT !.last = call]
        ELSE [inc_dir_aggregate(asked, "Drop", DetailType_from(message)) EXCEPT !.last = call]

\* send_buffer (lines 216-225), from the call of should_pass that passes;
\* written tells whether Socket::write succeeded
send_buffer(t, traffic_type, written) ==
    LET asked == should_pass_taken(t, BandwidthLimitType_from(traffic_type))
    IN  IF written
        THEN [socket_write(asked) EXCEPT !.last_packet_sent = t.clock]
        ELSE asked

\* send (lines 227-238)
send(t, message, traffic_type, written) ==
    LET sent == send_buffer(t, traffic_type, written)
    IN  IF written THEN inc_dir_aggregate(sent, "Message", DetailType_from(message)) ELSE sent

SendsCounted(t) == t.socket_writes + count(t, "Drop", "all")

TrySend ==
    /\ SendsCounted(tcp) < MaxSends
    /\ \E message \in SentMessages, drop_policy \in BufferDropPolicies, traffic_type \in TrafficTypes :
          tcp' = try_send(tcp, message, drop_policy, traffic_type)
    /\ UNCHANGED non_tcp_vars

\* Network::send_buffer hands the channel a buffer that holds message
SendBuffer ==
    /\ SendsCounted(tcp) < MaxSends
    /\ \E message \in SentMessages, traffic_type \in TrafficTypes, written \in BOOLEAN :
          /\ should_pass(tcp, BandwidthLimitType_from(traffic_type))
          /\ tcp' = [send_buffer(tcp, traffic_type, written)
                        EXCEPT !.last = [op |-> "send_buffer", message |-> message, drop_policy |-> "",
                                         traffic_type |-> traffic_type, limiter_asked |-> TRUE,
                                         should_pass |-> TRUE, written |-> written]]
    /\ UNCHANGED non_tcp_vars

Send ==
    /\ SendsCounted(tcp) < MaxSends
    /\ \E message \in SentMessages, traffic_type \in TrafficTypes, written \in BOOLEAN :
          /\ should_pass(tcp, BandwidthLimitType_from(traffic_type))
          /\ tcp' = [send(tcp, message, traffic_type, written)
                        EXCEPT !.last = [op |-> "send", message |-> message, drop_policy |-> "",
                                         traffic_type |-> traffic_type, limiter_asked |-> TRUE,
                                         should_pass |-> TRUE, written |-> written]]
    /\ UNCHANGED non_tcp_vars

\* the limiter's buckets fill up again
Refill ==
    /\ \E l \in LimitTypes : tcp.tokens[l] < MaxTokens
    /\ tcp' = [tcp EXCEPT !.tokens = [l \in LimitTypes |-> MaxTokens], !.last = NoSend]
    /\ UNCHANGED non_tcp_vars

TcpTick ==
    /\ tcp.clock < MaxTcpTime
    /\ tcp' = [tcp EXCEPT !.clock = @ + 1, !.last = NoSend]
    /\ UNCHANGED non_tcp_vars

ChannelNext == TrySend \/ SendBuffer \/ Send \/ Refill \/ TcpTick


\* ------------------------------------------------- calls that interleave
\* Network::add, Network::stop and wait_for_available_inbound_slot take the
\* lock of the info table and the lock of State one after the other and hold
\* neither across their steps.  A step here is what one call does under one
\* lock; the steps of different calls interleave.
Adders == 1..NumAdders

NoAdd == [pc |-> "idle", peer_addr |-> NoEndpoint, direction |-> "", channel_id |-> 0]

CallsInit == [add |-> [t \in Adders |-> NoAdd], stop |-> "idle", wait |-> "idle"]

\* ChannelContainer::count_by_direction
count_by_direction(n, direction) == Cardinality({id \in n.channels : n.info[id].direction = direction})

\* Network::add, lines 160-181: can_add_connection, and the early return
\* of a call that is rejected
AddCheck(t) ==
    /\ calls.add[t].pc = "idle"
    /\ \E peer_addr \in Endpoints, direction \in ChannelDirections, planned_mode \in {"Bootstrap", "Realtime"} :
          /\ direction = "Inbound" => peer_addr \in InboundEndpoints
          /\ IF can_add_connection(net, peer_addr, direction, planned_mode) = "Accepted"
             THEN /\ net.next_channel_id + Cardinality({u \in Adders : calls.add[u].pc = "admitted"}) <= MaxPeers
                  /\ calls' = [calls EXCEPT !.add[t] = [pc |-> "admitted", peer_addr |-> peer_addr,
                                                        direction |-> direction, channel_id |-> 0]]
             ELSE calls' = [calls EXCEPT !.add[t] = [NoAdd EXCEPT !.pc = "rejected"]]
    /\ UNCHANGED net
    /\ UNCHANGED non_call_vars

\* Network::add, lines 196-200: the info table takes the channel
AddInfo(t) ==
    /\ calls.add[t].pc = "admitted"
    /\ net' = info_add(net, calls.add[t].peer_addr, calls.add[t].direction)
    /\ calls' = [calls EXCEPT !.add[t].pc = "created", !.add[t].channel_id = net.next_channel_id]
    /\ UNCHANGED non_call_vars

\* Network::add, lines 202-215: Channel::create, then the container takes
\* the channel and the call returns it
AddInsert(t) ==
    /\ calls.add[t].pc = "created"
    /\ net' = [net EXCEPT !.channels = @ \cup {calls.add[t].channel_id}]
    /\ calls' = [calls EXCEPT !.add[t].pc = "added"]
    /\ UNCHANGED non_call_vars

\* the task that called add goes on to its next connection
AddReturned(t) ==
    /\ calls.add[t].pc \in {"added", "rejected"}
    /\ calls' = [calls EXCEPT !.add[t] = NoAdd]
    /\ UNCHANGED net
    /\ UNCHANGED non_call_vars

\* NetworkInfo::stop (network_info.rs lines 346-353) under the lock of the
\* info table: Network::stop, line 228
StopFlag ==
    /\ calls.stop = "idle"
    /\ IF net.stopped
       THEN /\ calls' = [calls EXCEPT !.stop = "returned"]
            /\ UNCHANGED net
       ELSE /\ net' = [net EXCEPT !.stopped = TRUE]
            /\ calls' = [calls EXCEPT !.stop = "closing"]
    /\ UNCHANGED non_call_vars

\* State::close_channels (lines 634-639) under the lock of State: Network::close
close_channels(n) ==
    [n EXCEPT !.info = [id \in DOMAIN @ |-> IF id \in n.channels THEN [@[id] EXCEPT !.closed = TRUE] ELSE @[id]],
              !.channels = {}]

StopClose ==
    /\ calls.stop = "closing"
    /\ net' = close_channels(net)
    /\ calls' = [calls EXCEPT !.stop = "returned"]
    /\ UNCHANGED non_call_vars

ConcNext ==
    \/ \E t \in Adders : AddCheck(t)
    \/ \E t \in Adders : AddInfo(t)
    \/ \E t \in Adders : AddInsert(t)
    \/ \E t \in Adders : AddReturned(t)
    \/ StopFlag
    \/ StopClose

\* ------------------------------------------------------ asynchronous sends
\* Network::send_buffer (rust/node/src/transport/network.rs, lines 285-304)
\* and the wait of send_buffer (channel_tcp.rs, lines 216-220). snd.state[i]
\* is "idle" before send i is started, "waiting" while it is in the loop
\* that asks the limiter, and "ok" or "err" once it returned.
SendIds == 1..MaxAsyncSends

SendInit ==
    [state |-> [i \in SendIds |-> "idle"],
     channel_id |-> [i \in SendIds |-> 0],
     traffic_type |-> [i \in SendIds |-> "Generic"],
     after_stop |-> [i \in SendIds |-> FALSE]]

\* network.rs lines 291-303: the channel is looked up in the container
network_send_buffer(n, s, i, channel_id, traffic_type) ==
    [s EXCEPT !.state[i] = IF channel_id \in n.channels THEN "waiting" ELSE "err",
              !.channel_id[i] = channel_id,
              !.traffic_type[i] = traffic_type,
              !.after_stop[i] = n.stopped]

\* Socket::write fails on a socket that was closed
WriteResults(n, channel_id) == IF is_closed(n, channel_id) THEN {FALSE} ELSE BOOLEAN

StartSendBuffer(i) ==
    /\ snd.state[i] = "idle" /\ \A j \in SendIds : j < i => snd.state[j] # "idle"
    /\ \E channel_id \in ChannelIds, traffic_type \in TrafficTypes :
          snd' = network_send_buffer(net, snd, i, channel_id, traffic_type)
    /\ UNCHANGED <<net, tcp>>
    /\ UNCHANGED non_send_vars

\* the pass of the loop at lines 217-220 in which should_pass is true, and
\* the write; the passes in which it is false change nothing
PollSend(i) ==
    /\ snd.state[i] = "waiting"
    /\ should_pass(tcp, BandwidthLimitType_from(snd.traffic_type[i]))
    /\ \E written \in WriteResults(net, snd.channel_id[i]) :
          /\ tcp' = [send_buffer(tcp, snd.traffic_type[i], written)
                        EXCEPT !.last = [op |-> "send_buffer", message |-> "Keepalive", drop_policy |-> "",
                                         traffic_type |-> snd.traffic_type[i], limiter_asked |-> TRUE,
                                         should_pass |-> TRUE, written |-> written]]
          /\ snd' = [snd EXCEPT !.state[i] = IF written THEN "ok" ELSE "err"]
    /\ UNCHANGED net
    /\ UNCHANGED non_send_vars

AsyncNext ==
    \/ Add
    \/ Stop
    \/ \E i \in SendIds : StartSendBuffer(i)
    \/ \E i \in SendIds : PollSend(i)
    \/ Refill

\* ---------------------------------------------------------------- statistics
\* rust/node/src/stats/stats.rs: the counters behind the RwLock and the
\* threads inside add_dir. A thread at "add_all" holds the read lock: it has
\* added to its counter and not yet to the counter of all details. A thread
\* at "write" found no entry, released the read lock and waits for the
\* write lock. stat.added[type] is the sum of the values that went into a
\* counter of the type since the last clear, stat.direct[type] the part of
\* it that was added to the All counter itself.
Threads == 1..NumThreads
CounterKeys == StatTypes \X DetailTypes
all_key(key) == <<key[1], "all">>
NoStatCall == [op |-> "none", thread |-> 0, key |-> <<>>, value |-> 0]

StatsInit ==
    [counters |-> Empty,
     pc |-> [t \in Threads |-> "idle"],
     key |-> [t \in Threads |-> <<>>],
     value |-> [t \in Threads |-> 0],
     added |-> [s \in StatTypes |-> 0],
     direct |-> [s \in StatTypes |-> 0],
     calls |-> 0,
     last |-> NoStatCall]

\* CounterEntry::add (lines 331-333), with the sums that follow it
counter_add(S, key, value) ==
    [S EXCEPT !.counters[key] = @ + value]

noted(S, key, value) ==
    [S EXCEPT !.added[key[1]] = @ + value,
              !.direct[key[1]] = IF key = all_key(key) THEN @ + value ELSE @]

\* the read lock is held by a thread between its two additions
read_locked(S) == \E t \in Threads : S.pc[t] = "add_all"

\* lines 100-122: value 0 returns; under the read lock the counter is looked
\* up and, if found, added to
add_dir_read(S, t, key, value) ==
    IF value = 0 THEN S
    ELSE IF key \in DOMAIN S.counters
    THEN [noted(counter_add(S, key, value), key, value)
             EXCEPT !.pc[t] = IF key # all_key(key) THEN "add_all" ELSE "idle",
                    !.key[t] = IF key # all_key(key) THEN key ELSE <<>>,
                    !.value[t] = IF key # all_key(key) THEN value ELSE 0]
    ELSE [S EXCEPT !.pc[t] = "write", !.key[t] = key, !.value[t] = value]

\* lines 115-119: the counter of all details, still under the read lock
add_dir_all(S, t) ==
    [counter_add(S, all_key(S.key[t]), S.value[t])
        EXCEPT !.pc[t] = "idle", !.key[t] = <<>>, !.value[t] = 0]

or_insert(S, key) ==
    IF key \in DOMAIN S.counters THEN S ELSE [S EXCEPT !.counters = Put(@, key, 0)]

\* mutant: the counter of all details is created and left at zero
add_dir_write_detail_only(S, t) ==
    LET key == S.key[t]
        S1 == noted(counter_add(or_insert(S, key), key, S.value[t]), key, S.value[t])
    IN  [or_insert(S1, all_key(key)) EXCEPT !.pc[t] = "idle", !.key[t] = <<>>, !.value[t] = 0]

\* lines 123-134: under the write lock both entries are created and added to
add_dir_write(S, t) ==
    LET key == S.key[t]
        S1 == noted(counter_add(or_insert(S, key), key, S.value[t]), key, S.value[t])
        S2 == or_insert(S1, all_key(key))
        S3 == IF key # all_key(key) THEN counter_add(S2, all_key(key), S.value[t]) ELSE S2
    IN  [S3 EXCEPT !.pc[t] = "idle", !.key[t] = <<>>, !.value[t] = 0]

\* lines 196-203
clear(S) ==
    [S EXCEPT !.counters = Empty,
              !.added = [s \in StatTypes |-> 0],
              !.direct = [s \in StatTypes |-> 0]]

\* Stats::count (lines 205-214)
stats_count(S, key) == IF key \in DOMAIN S.counters THEN S.counters[key] ELSE 0

StatCall(op, t, key, value) == [op |-> op, thread |-> t, key |-> key, value |-> value]

\* a thread calls add_dir and runs it up to the first addition
AddDir(t) ==
    /\ stat.pc[t] = "idle" /\ stat.calls < MaxCalls
    /\ \E key \in CounterKeys, value \in 0..MaxValue :
          stat' = [add_dir_read(stat, t, key, value)
                      EXCEPT !.calls = @ + 1, !.last = StatCall("add_dir", t, key, value)]
    /\ UNCHANGED non_stat_vars

AddDirAll(t) ==
    /\ stat.pc[t] = "add_all"
    /\ stat' = [add_dir_all(stat, t) EXCEPT !.last = StatCall("add_all", t, stat.key[t], stat.value[t])]
    /\ UNCHANGED non_stat_vars

\* the write lock is taken when no thread holds the read lock
AddDirWrite(t) ==
    /\ stat.pc[t] = "write" /\ ~read_locked(stat)
    /\ stat' = [add_dir_write(stat, t) EXCEPT !.last = StatCall("write", t, stat.key[t], stat.value[t])]
    /\ UNCHANGED non_stat_vars

ClearStats ==
    /\ stat.counters # Empty /\ ~read_locked(stat)
    /\ stat' = [clear(stat) EXCEPT !.last = StatCall("clear", 0, <<>>, 0)]
    /\ UNCHANGED non_stat_vars

StatsNext ==
    \/ \E t \in Threads : AddDir(t)
    \/ \E t \in Threads : AddDirAll(t)
    \/ \E t \in Threads : AddDirWrite(t)
    \/ ClearStats


\* wait_for_available_inbound_slot (lines 97-118).  The condition of its
\* loop reads the count of the inbound channels under the lock of State and
\* then, if no slot is free, the stopped flag under the lock of the info
\* table; between two rounds the task sleeps for 100 ms.
\* the first operand: a free slot ends the wait
inbound_slot_free(n) ==
    IF count_by_direction(n, "Inbound") >= max_inbound_connections THEN "flag" ELSE "returned"

\* a variant that sleeps on when the network is stopped
sleep_when_stopped(n) == "sleep"

\* the second operand: the wait goes on to sleep unless the network is stopped
sleep_unless_stopped(n) == IF ~n.stopped THEN "sleep" ELSE "returned"

WaitStart ==
    /\ calls.wait \in {"idle", "returned"}
    /\ calls' = [calls EXCEPT !.wait = "count"]
    /\ UNCHANGED net
    /\ UNCHANGED non_call_vars

\* the condition is evaluated on entry and after every sleep
WaitCount ==
    /\ calls.wait \in {"count", "sleep"}
    /\ calls' = [calls EXCEPT !.wait = inbound_slot_free(net)]
    /\ UNCHANGED net
    /\ UNCHANGED non_call_vars

WaitFlag ==
    /\ calls.wait = "flag"
    /\ calls' = [calls EXCEPT !.wait = sleep_unless_stopped(net)]
    /\ UNCHANGED net
    /\ UNCHANGED non_call_vars

\* a listener that waits for a slot while connections are admitted and
\* purged and the network is stopped
WaitNext ==
    \/ AddPeer
    \/ NetTick
    \/ Purge
    \/ StopFlag
    \/ StopClose
    \/ WaitStart
    \/ WaitCount
    \/ WaitFlag

\* ================================================================ messages
\* ---- streams: a stream is the sequence of the bytes not read yet
ByteBase == 2 ^ 8
WireBytes == 0..1
HashValues == 0..1
U64Values == {0, 1, ByteBase, ByteBase + 1}
MaxCount == 2 ^ CountBits - 1

Streams == UNION {[1..n -> WireBytes] : n \in 0..MaxStream}

RECURSIVE BigEndian(_, _)
BigEndian(value, n) ==
    IF n = 0 THEN <<>>
    ELSE Append(BigEndian(value \div ByteBase, n - 1), value % ByteBase)

RECURSIVE FromBigEndian(_)
FromBigEndian(bytes) ==
    IF bytes = <<>> THEN 0
    ELSE FromBigEndian(SubSeq(bytes, 1, Len(bytes) - 1)) * ByteBase + bytes[Len(bytes)]

Ok(value, rest) == [ok |-> TRUE, value |-> value, rest |-> rest]
Err(rest) == [ok |-> FALSE, value |-> <<>>, rest |-> rest]

\* a read that fails leaves the stream where it was
read_bytes(stream, n) ==
    IF Len(stream) < n THEN Err(stream)
    ELSE Ok(SubSeq(stream, 1, n), SubSeq(stream, n + 1, Len(stream)))

read_number(stream, n) ==
    LET bytes == read_bytes(stream, n)
    IN  IF bytes.ok THEN Ok(FromBigEndian(bytes.value), bytes.rest) ELSE bytes

read_u8(stream) == read_number(stream, 1)
read_u64_be(stream) == read_number(stream, U64Bytes)
write_u64_be(value) == BigEndian(value, U64Bytes)

\* BlockHash, Root and Account: numbers of the same width, most significant
\* byte first
BlockHash_deserialize(stream) == read_number(stream, HashBytes)
BlockHash_serialize(value) == BigEndian(value, HashBytes)
is_zero(value) == value = 0

\* ---- ConfirmReq: the list of (hash, root) pairs
RootsHashes == HashValues \X HashValues
RootsHashesLists == UNION {[1..n -> RootsHashes] : n \in 1..(MaxCount + 1)}

RECURSIVE read_roots(_, _, _)
read_roots(stream, roots_count, roots_hashes) ==
    IF roots_count = 0 THEN Ok(roots_hashes, stream)
    ELSE LET block_hash == BlockHash_deserialize(stream)
             root == BlockHash_deserialize(block_hash.rest)
         IN  IF ~block_hash.ok THEN Err(block_hash.rest)
             ELSE IF ~root.ok THEN Err(root.rest)
             ELSE read_roots(root.rest, roots_count - 1,
                      IF ~is_zero(block_hash.value) \/ ~is_zero(root.value)
                      THEN Append(roots_hashes, <<block_hash.value, root.value>>)
                      ELSE roots_hashes)

deserialize_roots_any_length(stream, roots_count) ==
    LET read == read_roots(stream, roots_count, <<>>)
    IN  IF ~read.ok THEN read
        ELSE IF read.value = <<>> THEN Err(read.rest)
        ELSE read

deserialize_roots(stream, roots_count) ==
    LET read == read_roots(stream, roots_count, <<>>)
    IN  IF ~read.ok THEN read
        ELSE IF read.value = <<>> \/ Len(read.value) # roots_count THEN Err(read.rest)
        ELSE read

RECURSIVE serialize_roots(_)
serialize_roots(roots_hashes) ==
    IF roots_hashes = <<>> THEN <<>>
    ELSE BlockHash_serialize(Head(roots_hashes)[1])
             \o BlockHash_serialize(Head(roots_hashes)[2])
             \o serialize_roots(Tail(roots_hashes))

\* the count of a request built from a list: the length of the list, in the
\* bits the header has for it
header_count(roots_hashes) == Len(roots_hashes) % (2 ^ CountBits)

\* ---- blocks on the wire: a type byte, then the fields of that type
WireBlockTypes == {"send", "state"}

block_type_code(block_type) ==
    CASE block_type = "invalid" -> 0
      [] block_type = "not_a_block" -> 1
      [] block_type = "send" -> 2
      [] block_type = "receive" -> 3
      [] block_type = "open" -> 4
      [] block_type = "change" -> 5
      [] block_type = "state" -> 6

serialized_block_size(block_type) ==
    CASE block_type = "send" -> SendBlockBytes
      [] block_type = "state" -> StateBlockBytes

WireBlocks ==
    UNION {{[block_type |-> t, body |-> b] : b \in [1..serialized_block_size(t) -> WireBytes]} : t \in WireBlockTypes}

serialize_block_enum(block) == <<block_type_code(block.block_type)>> \o block.body

deserialize_block_enum(stream) ==
    LET code == read_u8(stream)
        types == {t \in WireBlockTypes : code.ok /\ block_type_code(t) = code.value}
    IN  IF ~code.ok \/ types = {} THEN Err(code.rest)
        ELSE LET block_type == CHOOSE t \in types : TRUE
                 body == read_bytes(code.rest, serialized_block_size(block_type))
             IN  IF body.ok
                 THEN Ok([block_type |-> block_type, body |-> body.value], body.rest)
                 ELSE Err(body.rest)

\* ---- AscPullAck
Written(bytes) == [ok |-> TRUE, bytes |-> bytes]
WriteFailed == [ok |-> FALSE, bytes |-> <<>>]

RECURSIVE read_blocks_checked_late(_, _)
read_blocks_checked_late(stream, blocks) ==
    LET current == deserialize_block_enum(stream)
    IN  IF ~current.ok THEN Ok(blocks, current.rest)
        ELSE IF Len(blocks) + 1 >= MAX_BLOCKS THEN Err(current.rest)
        ELSE read_blocks_checked_late(current.rest, Append(blocks, current.value))

RECURSIVE read_blocks(_, _)
read_blocks(stream, blocks) ==
    LET current == deserialize_block_enum(stream)
    IN  IF ~current.ok THEN Ok(blocks, current.rest)
        ELSE IF Len(blocks) >= MAX_BLOCKS THEN Err(current.rest)
        ELSE read_blocks(current.rest, Append(blocks, current.value))

BlocksAckPayload_deserialize_one_less(stream) == read_blocks_checked_late(stream, <<>>)

BlocksAckPayload_deserialize(stream) == read_blocks(stream, <<>>)

RECURSIVE serialize_blocks(_)
serialize_blocks(blocks) ==
    IF blocks = <<>> THEN <<>>
    ELSE serialize_block_enum(Head(blocks)) \o serialize_blocks(Tail(blocks))

\* mutant: any number of blocks is written
BlocksAckPayload_serialize_unbounded(blocks) ==
    Written(serialize_blocks(blocks) \o <<block_type_code("not_a_block")>>)

BlocksAckPayload_serialize(blocks) ==
    IF Len(blocks) > MAX_BLOCKS THEN WriteFailed
    ELSE Written(serialize_blocks(blocks) \o <<block_type_code("not_a_block")>>)

AccountInfoAckPayload_serialize(info) ==
    Written(BlockHash_serialize(info.account)
                \o BlockHash_serialize(info.account_open)
                \o BlockHash_serialize(info.account_head)
                \o write_u64_be(info.account_block_count)
                \o BlockHash_serialize(info.account_conf_frontier)
                \o write_u64_be(info.account_conf_height))

AccountInfoAckPayload_deserialize(stream) ==
    LET account == BlockHash_deserialize(stream)
        account_open == BlockHash_deserialize(account.rest)
        account_head == BlockHash_deserialize(account_open.rest)
        account_block_count == read_u64_be(account_head.rest)
        account_conf_frontier == BlockHash_deserialize(account_block_count.rest)
        account_conf_height == read_u64_be(account_conf_frontier.rest)
    IN  IF ~account.ok THEN Err(account.rest)
        ELSE IF ~account_open.ok THEN Err(account_open.rest)
        ELSE IF ~account_head.ok THEN Err(account_head.rest)
        ELSE IF ~account_block_count.ok THEN Err(account_block_count.rest)
        ELSE IF ~account_conf_frontier.ok THEN Err(account_conf_frontier.rest)
        ELSE IF ~account_conf_height.ok THEN Err(account_conf_height.rest)
        ELSE Ok([account |-> account.value,
                 account_open |-> account_open.value,
                 account_head |-> account_head.value,
                 account_block_count |-> account_block_count.value,
                 account_conf_frontier |-> account_conf_frontier.value,
                 account_conf_height |-> account_conf_height.value],
                account_conf_height.rest)

asc_pull_type_code(pull_type) ==
    CASE pull_type = "invalid" -> 0
      [] pull_type = "blocks" -> 1
      [] pull_type = "account_info" -> 2

AscPullTypes == {"invalid", "blocks", "account_info"}

AscPullAckPayload_serialize(payload) ==
    LET pull_type ==
            IF payload.pull_type = "blocks"
            THEN BlocksAckPayload_serialize(payload.v)
            ELSE AccountInfoAckPayload_serialize(payload.v)
    IN  IF ~pull_type.ok THEN WriteFailed
        ELSE Written(<<asc_pull_type_code(payload.pull_type)>>
                         \o write_u64_be(payload.id)
                         \o pull_type.bytes)

AscPullAckPayload_deserialize(stream) ==
    LET code == read_u8(stream)
        types == {t \in AscPullTypes : code.ok /\ asc_pull_type_code(t) = code.value}
        id == read_u64_be(code.rest)
    IN  IF ~code.ok \/ types = {} THEN Err(code.rest)
        ELSE IF ~id.ok THEN Err(id.rest)
        ELSE LET pull_type_code == CHOOSE t \in types : TRUE
                 pull_type ==
                     IF pull_type_code = "blocks"
                     THEN BlocksAckPayload_deserialize(id.rest)
                     ELSE AccountInfoAckPayload_deserialize(id.rest)
             IN  IF pull_type_code = "invalid" THEN Err(id.rest)
                 ELSE IF ~pull_type.ok THEN Err(pull_type.rest)
                 ELSE Ok([id |-> id.value, pull_type |-> pull_type_code, v |-> pull_type.value],
                         pull_type.rest)

BlockLists == UNION {[1..n -> WireBlocks] : n \in 0..(MAX_BLOCKS + 1)}

AccountInfos ==
    [account : HashValues, account_open : HashValues, account_head : HashValues,
     account_block_count : {0, ByteBase + 1}, account_conf_frontier : HashValues,
     account_conf_height : {1, ByteBase}]

ack_blocks(id, blocks) == [id |-> id, pull_type |-> "blocks", v |-> blocks]
ack_accounts(id, accounts) == [id |-> id, pull_type |-> "account_info", v |-> accounts]

\* lines 185-187 and 204-206: stream.bytes_written() as u16, put into the
\* extensions of the header
payload_len(written) == Len(written.bytes) % (2 ^ ExtensionsBits)

\* ---- the calls
CodecCall(op, message, roots_count, written, stream, result) ==
    [op |-> op, message |-> message, count |-> roots_count, written |-> written,
     stream |-> stream, result |-> result]

CodecInit == CodecCall("", <<>>, 0, FALSE, <<>>, Err(<<>>))

\* the calls share nothing: every behaviour is one call
\* a request arrives: any count in the header, any bytes after it
DeserializeRoots ==
    /\ wire = CodecInit
    /\ \E header_count_field \in 0..MaxCount, stream \in Streams :
           wire' = CodecCall("deserialize_roots", <<>>, header_count_field, FALSE, stream,
                             deserialize_roots(stream, header_count_field))
    /\ UNCHANGED non_wire_vars

\* a request is built from a list, written, and read back
ConfirmReqRoundTrip ==
    /\ wire = CodecInit
    /\ \E roots_hashes \in RootsHashesLists :
           LET stream == serialize_roots(roots_hashes)
               header_count_field == header_count(roots_hashes)
           IN  wire' = CodecCall("confirm_req", roots_hashes, header_count_field, TRUE, stream,
                                 deserialize_roots(stream, header_count_field))
    /\ UNCHANGED non_wire_vars

\* an ack is built, written, and read back; the count of the call is what
\* the constructor put into the extensions of the header
AscPullAckCall(payload) ==
    LET pull_type ==
            IF payload.pull_type = "blocks"
            THEN BlocksAckPayload_serialize(payload.v)
            ELSE AccountInfoAckPayload_serialize(payload.v)
        written == AscPullAckPayload_serialize(payload)
    IN  CodecCall("asc_pull_ack", payload, IF pull_type.ok THEN payload_len(pull_type) ELSE 0,
                  written.ok, written.bytes,
                  IF written.ok THEN AscPullAckPayload_deserialize(written.bytes) ELSE Err(<<>>))

AckBlocksRoundTrip ==
    /\ wire = CodecInit
    /\ \E id \in U64Values, blocks \in BlockLists : wire' = AscPullAckCall(ack_blocks(id, blocks))
    /\ UNCHANGED non_wire_vars

AckAccountsRoundTrip ==
    /\ wire = CodecInit
    /\ \E id \in U64Values, accounts \in AccountInfos : wire' = AscPullAckCall(ack_accounts(id, accounts))
    /\ UNCHANGED non_wire_vars

\* a peer sends any number of blocks and the terminator
DeserializeBlocks ==
    /\ wire = CodecInit
    /\ \E blocks \in BlockLists :
           LET stream == serialize_blocks(blocks) \o <<block_type_code("not_a_block")>>
           IN  wire' = CodecCall("deserialize_blocks", blocks, 0, FALSE, stream,
                                 BlocksAckPayload_deserialize(stream))
    /\ UNCHANGED non_wire_vars

CodecNext ==
    \/ DeserializeRoots
    \/ DeserializeBlocks
    \/ ConfirmReqRoundTrip
    \/ AckBlocksRoundTrip
    \/ AckAccountsRoundTrip

\* ================================================================= process
\* rust/ledger/src/block_insertion/validator_factory.rs: the input bundle
load_previous_block(L, block) ==
    IF block.previous # ZeroHash /\ block.previous \in DOMAIN L.blocks
    THEN Some(L.blocks[block.previous])
    ELSE None

validator_account(block, previous) ==
    IF block.account # ZeroAccount THEN block.account
    ELSE IF previous.some THEN account_calculated(previous.v)
    ELSE ZeroAccount

create_validator(L, block) ==
    LET previous_block == load_previous_block(L, block)
        account == validator_account(block, previous_block)
        source_block == source_or_link(block)
    IN  [block |-> block,
         account |-> account,
         block_exists |-> block.hash \in DOMAIN L.blocks,
         old_account_info |->
             IF account \in DOMAIN L.accounts THEN Some(L.accounts[account]) ELSE None,
         pending_receive_info |->
             IF source_block # ZeroHash /\ <<account, source_block>> \in DOMAIN L.pending
             THEN Some(L.pending[<<account, source_block>>])
             ELSE None,
         any_pending_exists |-> \E k \in DOMAIN L.pending : k[1] = account,
         source_block_exists |->
             source_block # ZeroHash /\ source_block \in DOMAIN L.blocks,
         previous_block |-> previous_block]

\* ---- the block validator: the checks, in order
old_balance(v) == IF v.old_account_info.some THEN v.old_account_info.v.balance ELSE 0
old_epoch(v) == IF v.old_account_info.some THEN v.old_account_info.v.epoch ELSE 0

block_is_epoch(v) ==
    v.block.type = "state" /\ is_epoch_link(v.block.link)
        /\ v.block.balance = old_balance(v)
block_is_send(v) ==
    \/ v.block.type = "send"
    \/ v.block.type = "state" /\ v.block.previous # ZeroHash
          /\ v.block.balance < old_balance(v)
block_is_receive(v) ==
    \/ v.block.type \in {"receive", "open"}
    \/ v.block.type = "state" /\ ~block_is_epoch(v)
          /\ (v.block.balance > old_balance(v)
              \/ (v.block.previous = ZeroHash))
block_new_balance(v) ==
    IF v.block.type \in {"send", "state"} THEN v.block.balance
    ELSE IF v.block.type = "change" THEN old_balance(v)
    ELSE old_balance(v)
             + (IF v.pending_receive_info.some THEN v.pending_receive_info.v.amount ELSE 0)

validate(v) ==
    LET b == v.block
    IN  IF v.block_exists THEN "BlockExists"
        ELSE IF b.previous # ZeroHash /\ ~v.previous_block.some THEN "GapPrevious"
        ELSE IF block_is_receive(v) /\ ~v.source_block_exists THEN "GapSource"
        ELSE IF b.previous = ZeroHash /\ v.old_account_info.some THEN "Fork"
        ELSE IF b.previous # ZeroHash /\ ~v.old_account_info.some THEN "Fork"
        ELSE IF b.previous # ZeroHash /\ b.previous # v.old_account_info.v.head THEN "Fork"
        ELSE IF b.previous = ZeroHash /\ b.type \in {"send", "receive", "change"}
        THEN "GapPrevious"
        \* a legacy block cannot follow a state block (the frontier table
        \* holds legacy heads only)
        ELSE IF is_legacy(b) /\ v.previous_block.some /\ ~is_legacy(v.previous_block.v)
        THEN "BlockPosition"
        ELSE IF block_is_send(v) /\ ~(b.balance < old_balance(v)) THEN "NegativeSpend"
        ELSE IF block_is_receive(v) /\ ~v.pending_receive_info.some THEN "Unreceivable"
        ELSE IF block_is_receive(v) /\ ~(v.pending_receive_info.v.amount > 0)
        THEN "Unreceivable"
        ELSE IF block_is_receive(v) /\ b.type = "state"
                /\ b.balance # old_balance(v) + v.pending_receive_info.v.amount
        THEN "BalanceMismatch"
        ELSE IF block_is_receive(v)
                /\ old_balance(v) + v.pending_receive_info.v.amount > AmountMax
        THEN "BalanceMismatch"
        ELSE IF b.type = "change" /\ b.representative = v.old_account_info.v.representative
        THEN "RepresentativeMismatch"
        ELSE IF b.type = "state" /\ ~block_is_send(v) /\ ~block_is_receive(v)
                /\ ~block_is_epoch(v) /\ b.link # ZeroHash
        THEN "Unreceivable"
        ELSE IF b.type = "state" /\ ~block_is_send(v) /\ ~block_is_receive(v)
                /\ ~block_is_epoch(v)
                /\ b.representative = v.old_account_info.v.representative
        THEN "RepresentativeMismatch"
        ELSE IF block_is_epoch(v) /\ b.link # EpochLink(old_epoch(v) + 1)
        THEN "BlockPosition"
        ELSE IF block_is_epoch(v) /\ v.old_account_info.some
                /\ b.representative # v.old_account_info.v.representative
        THEN "RepresentativeMismatch"
        ELSE IF block_is_epoch(v) /\ ~v.old_account_info.some
                /\ (b.representative # ZeroAccount \/ ~v.any_pending_exists)
        THEN "RepresentativeMismatch"
        ELSE ""

\* ---- InsertInstructions of a valid block
new_epoch(v) ==
    IF is_legacy(v.block) THEN 0
    ELSE IF block_is_epoch(v) THEN old_epoch(v) + 1
    ELSE IF block_is_receive(v) /\ v.pending_receive_info.v.epoch > old_epoch(v)
    THEN v.pending_receive_info.v.epoch
    ELSE old_epoch(v)

new_sideband(v) ==
    [height |-> (IF v.old_account_info.some THEN v.old_account_info.v.block_count ELSE 0) + 1,
     successor |-> ZeroHash,
     account |-> v.account,
     balance |-> block_new_balance(v),
     epoch |-> new_epoch(v),
     is_send |-> block_is_send(v),
     is_receive |-> block_is_receive(v),
     is_epoch |-> block_is_epoch(v),
     source_epoch |-> IF block_is_receive(v) THEN v.pending_receive_info.v.epoch ELSE 0]

new_account_info(v) ==
    [head |-> v.block.hash,
     representative |->
         IF has_representative(v.block) THEN v.block.representative
         ELSE v.old_account_info.v.representative,
     open_block |->
         IF v.old_account_info.some THEN v.old_account_info.v.open_block ELSE v.block.hash,
     balance |-> block_new_balance(v),
     modified |-> now,
     block_count |-> (IF v.old_account_info.some THEN v.old_account_info.v.block_count ELSE 0) + 1,
     epoch |-> new_epoch(v)]

\* ---- the ledger mutator: steps 1-7
insert_frontier(t, v) ==
    LET old_head == IF v.old_account_info.some THEN v.old_account_info.v.head ELSE ZeroHash
    IN  IF is_legacy(v.block)
        THEN frontier_put(IF old_head # ZeroHash THEN frontier_del(t, old_head) ELSE t,
                          v.block.hash, v.account)
        ELSE IF frontier_get(t.L.frontier, old_head) # ZeroAccount
        THEN frontier_del(t, old_head)
        ELSE t

insert_rep_weights(w, v) ==
    LET info == new_account_info(v)
    IN  IF v.old_account_info.some
        THEN representation_add_dual(w, info.representative, info.balance,
                 v.old_account_info.v.representative,
                 wrapping_sub(0, v.old_account_info.v.balance))
        ELSE representation_add(w, info.representative, info.balance)

insert_pending(pending, v) ==
    IF block_is_send(v)
    THEN Put(pending, <<destination_or_link(v.block), v.block.hash>>,
             [source |-> v.account,
              amount |-> old_balance(v) - v.block.balance,
              epoch |-> new_epoch(v)])
    ELSE IF block_is_receive(v)
    THEN Del(pending, <<v.account, source_or_link(v.block)>>)
    ELSE pending

insert_block(t, v) ==
    LET stored == [v.block EXCEPT !.sideband = new_sideband(v)]
        info == new_account_info(v)
        old == IF v.old_account_info.some THEN v.old_account_info.v ELSE NoAccountInfo
        t1 == [t EXCEPT !.L.blocks =
                   successor_set(Put(@, stored.hash, stored), stored.previous, stored.hash)]
        t2 == [t1 EXCEPT !.L = update_account(@, v.account, old, info)]
        t3 == [t2 EXCEPT !.L.pending = insert_pending(@, v)]
        t4 == insert_frontier(t3, v)
    IN  IF t4.err # "" THEN t4
        ELSE [t4 EXCEPT !.L.rep_weights = insert_rep_weights(@, v),
                        !.L.block_count = @ + 1]

\* ============================================================ state machine
GenesisBlock ==
    [NewBlock(GenesisHash, "open", GenesisAccount, ZeroHash, GenesisAccount, 0,
              ZeroAccount, ZeroHash, ZeroHash)
        EXCEPT !.sideband = [NoSideband EXCEPT !.height = 1, !.account = GenesisAccount,
                                               !.balance = AmountMax]]

GenesisLedger ==
    [blocks |-> (GenesisHash :> GenesisBlock),
     accounts |-> (GenesisAccount :>
         [head |-> GenesisHash, representative |-> GenesisAccount,
          open_block |-> GenesisHash, balance |-> AmountMax, modified |-> 0,
          block_count |-> 1, epoch |-> 0]),
     pending |-> Empty,
     frontier |-> (GenesisHash :> GenesisAccount),
     confirmation_height |-> (GenesisAccount :> 1),
     rep_weights |-> [r \in 0..NumAccounts |-> IF r = GenesisAccount THEN AmountMax ELSE 0],
     block_count |-> 1]

NoCall == [op |-> "none", err |-> "", rolled_back |-> <<>>]

Init ==
    /\ ledger = GenesisLedger
    /\ now = 0
    /\ last = NoCall
    /\ hist = Empty
    /\ srv = ServerInit
    /\ net = NetInit
    /\ tcp = TcpInit
    /\ io = ReadInit
    /\ snd = SendInit
    /\ stat = StatsInit
    /\ wire = CodecInit
    /\ calls = CallsInit
    /\ lmdb = LmdbInit
    /\ ws = WsInit

\* The accounts other than genesis are interchangeable: a send to an account
\* no block or pending entry refers to yet goes to the lowest such account.
Referenced(L) == (DOMAIN L.accounts) \cup {k[1] : k \in DOMAIN L.pending}
SendDestinations(L) ==
    LET fresh == Accounts \ Referenced(L)
    IN  {ZeroAccount} \cup (Accounts \cap Referenced(L))
            \cup {a \in fresh : \A b \in fresh : a <= b}

\* the balances a send may leave: it sends 1..MaxSend
SendBalances(bal) == {bal - x : x \in {x \in 1..MaxSend : x <= bal}}

\* the blocks a caller may submit for account a
CandidateBlocks(L, a) ==
    LET head == ledger_latest(L, a)
        h == HashOf(a, (IF a \in DOMAIN L.accounts THEN L.accounts[a].block_count ELSE 0) + 1)
        bal == IF a \in DOMAIN L.accounts THEN L.accounts[a].balance ELSE 0
        ep == IF a \in DOMAIN L.accounts THEN L.accounts[a].epoch ELSE 0
        rp == IF a \in DOMAIN L.accounts THEN L.accounts[a].representative
              ELSE ZeroAccount
        sources == {k[2] : k \in {k \in DOMAIN L.pending : k[1] = a}}
    IN  {NewBlock(h, "send", ZeroAccount, head, ZeroAccount, nb, d, ZeroHash, ZeroHash) :
            nb \in SendBalances(bal), d \in SendDestinations(L)}
        \cup {NewBlock(h, "receive", ZeroAccount, head, ZeroAccount, 0, ZeroAccount, src,
                       ZeroHash) : src \in sources}
        \cup {NewBlock(h, "open", a, ZeroHash, r, 0, ZeroAccount, src, ZeroHash) :
                 src \in sources, r \in Reps}
        \cup {NewBlock(h, "change", ZeroAccount, head, r, 0, ZeroAccount, ZeroHash,
                       ZeroHash) : r \in Reps}
        \cup {NewBlock(h, "state", a, head, r, nb, ZeroAccount, ZeroHash, d) :
                 r \in {rp}, nb \in SendBalances(bal), d \in SendDestinations(L)}
        \cup {NewBlock(h, "state", a, head, r, bal + L.pending[<<a, src>>].amount,
                       ZeroAccount, ZeroHash, src) : r \in Reps, src \in sources}
        \cup {NewBlock(h, "state", a, head, r, bal, ZeroAccount, ZeroHash, ZeroHash) :
                 r \in Reps}
        \cup {NewBlock(h, "state", a, head, r, bal, ZeroAccount, ZeroHash,
                       EpochLink(ep + 1)) :
                 r \in {rp}}

Process(block) ==
    LET v == create_validator(ledger, block)
        t == insert_block(Txn(ledger), v)
    IN  /\ validate(v) = ""
        /\ t.err = ""
        /\ ledger' = t.L
        /\ last' = NoCall
        /\ UNCHANGED now
        /\ UNCHANGED non_ledger_vars

ProcessBlock ==
    /\ ledger.block_count < MaxBlocks
    /\ \E a \in Accounts : \E block \in CandidateBlocks(ledger, a) :
           Process(block) /\ hist' = Empty

\* the same call, the ledger it started from remembered
ProcessBlockRecorded ==
    /\ last.op = "none"
    /\ ledger.block_count < MaxBlocks
    /\ \E a \in Accounts : \E block \in CandidateBlocks(ledger, a) :
           Process(block) /\ hist' = Put(hist, block.hash, ledger)

\* Ledger::rollback(hash) in a write transaction of its own; the outcome is
\* committed whether the call returned Ok or Err.  A panic aborts the node.
Rollback(block_hash) ==
    LET t == roll_back_block_hash(Txn(ledger), block_hash)
    IN  /\ t.err # "panic"
        /\ ledger' = t.L
        /\ last' = [op |-> "rollback", err |-> t.err, rolled_back |-> t.rolled_back]
        /\ UNCHANGED now
        /\ UNCHANGED non_ledger_vars

RollbackBlock ==
    \E block_hash \in DOMAIN ledger.blocks : Rollback(block_hash) /\ hist' = Empty

\* the one rollback that ends a recorded run: what is remembered of the run
\* is the ledger before the target B1 and before each block processed after it
RollbackRecorded ==
    /\ last.op = "none"
    /\ \E block_hash \in DOMAIN hist :
           /\ Rollback(block_hash)
           /\ hist' = [h \in {h \in DOMAIN hist :
                                  h = block_hash \/ block_hash \in DOMAIN hist[h].blocks}
                          |-> hist[h]]

\* the chain of account a, open block first
RECURSIVE chain_to(_, _)
chain_to(L, h) ==
    IF h = ZeroHash \/ h \notin DOMAIN L.blocks THEN <<>>
    ELSE Append(chain_to(L, L.blocks[h].previous), h)
chain(L, a) == chain_to(L, ledger_latest(L, a))

is_confirmed(L, h) ==
    /\ h \in DOMAIN L.blocks
    /\ ledger_account(L, h) \in DOMAIN L.confirmation_height
    /\ L.blocks[h].sideband.height <= L.confirmation_height[ledger_account(L, h)]

\* cementing: the next block of account a is confirmed once the send it
\* receives is confirmed
Confirm(a) ==
    LET height == IF a \in DOMAIN ledger.confirmation_height
                  THEN ledger.confirmation_height[a] ELSE 0
        block == ledger.blocks[chain(ledger, a)[height + 1]]
    IN  /\ a \in DOMAIN ledger.accounts
        /\ Cardinality({h \in DOMAIN ledger.blocks : is_confirmed(ledger, h)}) < MaxCemented
        /\ height < ledger.accounts[a].block_count
        /\ block.sideband.is_receive => is_confirmed(ledger, source_or_link(block))
        /\ ledger' = [ledger EXCEPT !.confirmation_height = Put(@, a, height + 1)]
        /\ last' = NoCall
        /\ hist' = Empty
        /\ UNCHANGED now
        /\ UNCHANGED non_ledger_vars

ConfirmBlock == \E a \in Accounts : Confirm(a)

Tick ==
    /\ last.op = "none"
    /\ now < MaxTime
    /\ now' = now + 1
    /\ UNCHANGED <<ledger, last, hist>>
    /\ UNCHANGED non_ledger_vars

\* all calls within one second, nothing cemented but the genesis block
Next == ProcessBlock \/ RollbackBlock

Spec == Init /\ [][Next]_vars

\* all calls within one second, blocks being cemented
CementNext == ProcessBlock \/ RollbackBlock \/ ConfirmBlock

CementSpec == Init /\ [][CementNext]_vars

\* a ledger built by process calls while the clock runs, then one rollback
TimedNext == ProcessBlockRecorded \/ RollbackRecorded \/ Tick

TimedSpec == Init /\ [][TimedNext]_vars

\* the bootstrap servers alone
ServerSpec == Init /\ [][ServerNext]_vars

\* the network alone
NetworkSpec == Init /\ [][NetworkNext]_vars

IdleSpec == Init /\ [][IdleNext]_vars

\* one tcp channel alone
ChannelSpec == Init /\ [][ChannelNext]_vars

\* the network its keepalives are filled from: connections admitted,
\* given a peering address, upgraded and closed
KeepaliveNext ==
    \/ Add
    \/ SetPeeringAddr
    \/ UpgradeToRealtime
    \/ CloseChannel
    \/ RandomFill

KeepaliveSpec == Init /\ [][KeepaliveNext]_vars

\* a network of up to MaxPeers connections that are admitted and upgraded
PeersNext ==
    \/ NetSetFlags
    \/ AddPeer
    \/ UpgradeToRealtime
    \/ Stop

PeersSpec == Init /\ [][PeersNext]_vars

\* sends handed to a network that is stopped meanwhile
AsyncSpec == Init /\ [][AsyncNext]_vars

\* threads adding to the statistics while they are cleared
StatsSpec == Init /\ [][StatsNext]_vars

\* messages written to a stream and read back, and requests read from any bytes
CodecSpec == Init /\ [][CodecNext]_vars

\* calls of add and a call of stop that interleave
ConcSpec == Init /\ [][ConcNext]_vars

\* read transactions created, reset, renewed, refreshed and dropped
TxnSpec == Init /\ [][TxnNext]_vars

\* websocket sessions that subscribe, unsubscribe and end
WsSpec == Init /\ [][WsNext]_vars

\* the runtime wakes the sleeping task and runs a task that is ready
WaitSpec == Init /\ [][WaitNext]_vars /\ WF_vars(WaitCount) /\ WF_vars(WaitFlag)

\* the response servers, their reads calling back one by one
ReadSpec == Init /\ [][ReadNext]_vars

\* ================================================================== claims
\* rollback(block_hash) called on the current ledger
RollbackOf(block_hash) == roll_back_block_hash(Txn(ledger), block_hash)

AccountOfHash(h) == h \div HashStride
HeightOfHash(h) == h % HashStride

StoredHeightConfirmed(h) ==
    ledger.blocks[h].sideband.height
        <= (IF ledger_account(ledger, h) \in DOMAIN ledger.confirmation_height
            THEN ledger.confirmation_height[ledger_account(ledger, h)] ELSE 0)

\* C1: for every stored block whose sideband height is at most the
\* confirmation height of its account, rollback(hash) fails with
\* AlreadyConfirmed, leaves blocks, accounts, pending, frontier, representative
\* weights and block_count unchanged and sends no block_rolled_back
\* notification.
C1_ConfirmedBlockIsNotRolledBack ==
    \A h \in DOMAIN ledger.blocks :
        StoredHeightConfirmed(h) =>
            LET t == RollbackOf(h)
            IN  /\ t.err = "AlreadyConfirmed"
                /\ t.L.blocks = ledger.blocks
                /\ t.L.accounts = ledger.accounts
                /\ t.L.pending = ledger.pending
                /\ t.L.frontier = ledger.frontier
                /\ t.L.rep_weights = ledger.rep_weights
                /\ t.L.block_count = ledger.block_count
                /\ t.observed = <<>>
                /\ t.rolled_back = <<>>

\* a rollback has just failed with AlreadyConfirmed, while a cemented block
\* other than the genesis block has an uncemented block on top of it
C1_Witness ==
    /\ last.op = "rollback"
    /\ last.err = "AlreadyConfirmed"
    /\ \E h \in DOMAIN ledger.blocks :
          /\ h # GenesisHash
          /\ StoredHeightConfirmed(h)
          /\ ledger.blocks[h].sideband.successor # ZeroHash
          /\ ~StoredHeightConfirmed(ledger.blocks[h].sideband.successor)

\* ------------------------------------------------------------- invariants
RECURSIVE SumOver(_, _)
\* the sum of f[x] over x in S
SumOver(f, S) ==
    IF S = {} THEN 0
    ELSE LET x == CHOOSE x \in S : TRUE IN f[x] + SumOver(f, S \ {x})

SumBalances(L) == SumOver([a \in DOMAIN L.accounts |-> L.accounts[a].balance],
                          DOMAIN L.accounts)
SumPendingTo(L, dests) ==
    SumOver([k \in DOMAIN L.pending |-> L.pending[k].amount],
            {k \in DOMAIN L.pending : k[1] \in dests})
BurnAccount == ZeroAccount

PreviousBalance(L, b) == ledger_balance(L, b.previous)
\* a stored block is a send / a receive by what it did to the balance
StoredIsSend(L, h) ==
    LET b == L.blocks[h]
    IN  b.type = "send" \/ (b.type = "state" /\ b.balance < PreviousBalance(L, b))
StoredIsReceive(L, h) ==
    LET b == L.blocks[h]
    IN  b.type \in {"receive", "open"}
            \/ (b.type = "state" /\ b.balance > PreviousBalance(L, b))
\* the stored receive / open blocks of account d whose source is send s
ReceiversOf(L, d, s) ==
    {r \in DOMAIN L.blocks : /\ StoredIsReceive(L, r)
                             /\ ledger_account(L, r) = d
                             /\ source_or_link(L.blocks[r]) = s}
LastSucceeded == last.op = "rollback" /\ last.err = ""

\* C3: the sum of all account balances plus all pending amounts equals the
\* initial supply, less what was sent to the burn account.
C3_Conservation ==
    SumBalances(ledger) + SumPendingTo(ledger, Accounts)
        = AmountMax - SumPendingTo(ledger, {BurnAccount})

\* a rollback that removed a send and its receive has just succeeded, with
\* something burnt and something receivable left in the ledger
C3_Witness ==
    /\ LastSucceeded
    /\ Len(last.rolled_back) >= 2
    /\ SumPendingTo(ledger, {BurnAccount}) > 0
    /\ SumPendingTo(ledger, Accounts) > 0
    /\ SumBalances(ledger) < AmountMax

\* C6: a pending entry (D, hash(S)) exists iff send S with destination D is
\* stored and no receive / open with source hash(S) is in D's chain; its
\* amount is the amount S sent, its source account is S's author and its epoch
\* is the epoch of S.
C6_PendingInvariant ==
    /\ \A d \in Destinations : \A s \in Hashes :
          (<<d, s>> \in DOMAIN ledger.pending)
              <=> /\ s \in DOMAIN ledger.blocks
                  /\ StoredIsSend(ledger, s)
                  /\ destination_or_link(ledger.blocks[s]) = d
                  /\ ReceiversOf(ledger, d, s) = {}
    /\ \A k \in DOMAIN ledger.pending :
          /\ k[1] \in Destinations /\ k[2] \in Hashes
          /\ k[2] \in DOMAIN ledger.blocks
                => /\ ledger.pending[k].amount
                        = PreviousBalance(ledger, ledger.blocks[k[2]])
                            - balance_calculated(ledger.blocks[k[2]])
                   /\ ledger.pending[k].source = ledger_account(ledger, k[2])
                   /\ ledger.pending[k].epoch = ledger.blocks[k[2]].sideband.epoch

\* a rollback has just undone a receive of an account that keeps a positive
\* balance: the entry it consumed is in the pending table again
C6_Witness ==
    /\ LastSucceeded
    /\ \E k \in DOMAIN ledger.pending :
          /\ k[1] \in DOMAIN ledger.accounts
          /\ ledger.accounts[k[1]].balance > 0
          /\ \E i \in 1..Len(last.rolled_back) :
                /\ AccountOfHash(last.rolled_back[i]) = k[1]
                /\ AccountOfHash(k[2]) # k[1]

\* C7: for every account whose head h is a legacy block frontier[h] is that
\* account, and no block that is not the head of a legacy chain is in the
\* frontier table.
C7_FrontierCoherence ==
    /\ \A a \in DOMAIN ledger.accounts :
          LET h == ledger.accounts[a].head
          IN  (h \in DOMAIN ledger.blocks /\ is_legacy(ledger.blocks[h]))
                  => frontier_get(ledger.frontier, h) = a
    /\ \A h \in DOMAIN ledger.frontier :
          /\ h \in DOMAIN ledger.blocks
          /\ is_legacy(ledger.blocks[h])
          /\ ledger_latest(ledger, ledger_account(ledger, h)) = h

\* C8: a stored block has a non-zero successor iff it is not the head of its
\* account, and a non-zero successor is the one stored block whose previous is
\* that block.
C8_SuccessorCoherence ==
    \A h \in DOMAIN ledger.blocks :
        LET succ == ledger.blocks[h].sideband.successor
        IN  /\ (succ # ZeroHash)
                <=> (h # ledger_latest(ledger, ledger_account(ledger, h)))
            /\ succ # ZeroHash =>
                  {x \in DOMAIN ledger.blocks : ledger.blocks[x].previous = h} = {succ}

\* a rollback has just removed blocks from a chain that still has a block
\* below its head
C8_Witness ==
    /\ LastSucceeded
    /\ \E i \in 1..Len(last.rolled_back) :
          LET a == AccountOfHash(last.rolled_back[i])
          IN  /\ a \in DOMAIN ledger.accounts
              /\ ledger.accounts[a].head = last.rolled_back[i] - 1
              /\ ledger.accounts[a].block_count >= 2

\* C9: for every representative r, rep_weights[r] is the sum of the balances
\* of the accounts whose representative is r.
C9_RepresentativeWeights ==
    \A r \in DOMAIN ledger.rep_weights :
        ledger.rep_weights[r]
            = SumOver([a \in DOMAIN ledger.accounts |-> ledger.accounts[a].balance],
                      {a \in DOMAIN ledger.accounts : ledger.accounts[a].representative = r})

\* a rollback has just removed an open block (single subtraction) and a block
\* with a previous block (dual adjustment), and two representatives have weight
C9_Witness ==
    /\ LastSucceeded
    /\ \E i, j \in 1..Len(last.rolled_back) :
          /\ HeightOfHash(last.rolled_back[i]) = 1
          /\ HeightOfHash(last.rolled_back[j]) > 1
    /\ \E r1, r2 \in Reps : r1 # r2 /\ ledger.rep_weights[r1] > 0
                                   /\ ledger.rep_weights[r2] > 0

\* C10: for every account with block_count > 0 the head is a stored block
\* whose sideband height is the account's block_count.
C10_HeadHeight ==
    \A a \in DOMAIN ledger.accounts :
        ledger.accounts[a].block_count > 0 =>
            /\ ledger.accounts[a].head \in DOMAIN ledger.blocks
            /\ ledger.blocks[ledger.accounts[a].head].sideband.height
                   = ledger.accounts[a].block_count

\* a rollback has just lowered an account other than genesis to a head that
\* has a previous block
C10_Witness ==
    /\ LastSucceeded
    /\ \E i \in 1..Len(last.rolled_back) :
          LET a == AccountOfHash(last.rolled_back[i])
          IN  /\ a # GenesisAccount
              /\ a \in DOMAIN ledger.accounts
              /\ ledger.accounts[a].block_count >= 2
              /\ ledger.accounts[a].head = last.rolled_back[i] - 1

SeqToSet(q) == {q[i] : i \in 1..Len(q)}
\* the blocks of the chain of account a at height >= n
BlocksFrom(L, a, n) ==
    {x \in DOMAIN L.blocks : ledger_account(L, x) = a /\ L.blocks[x].sideband.height >= n}
\* entry x is written to the log before entry y
LoggedBefore(log, x, y) ==
    \E i, j \in 1..Len(log) : i < j /\ log[i] = x /\ log[j] = y

\* C4: when a rollback removes a send S that a block R of the destination
\* chain had received, R and every block above R in that chain are removed
\* before S, the pending entry (destination, hash(S)) is restored by undoing R
\* and then deleted, and afterwards neither S, R nor that entry exists.
C4_CascadeOrdering ==
    \A h \in DOMAIN ledger.blocks :
        LET t == RollbackOf(h)
        IN  t.err = "" =>
              \A s \in SeqToSet(t.rolled_back) :
                  LET d == destination_or_link(ledger.blocks[s])
                  IN  StoredIsSend(ledger, s) =>
                        \A r \in ReceiversOf(ledger, d, s) :
                            /\ \A x \in BlocksFrom(ledger, d, ledger.blocks[r].sideband.height) :
                                  LoggedBefore(t.log, <<"block_del", x>>, <<"block_del", s>>)
                            /\ LoggedBefore(t.log, <<"pending_put", d, s>>, <<"block_del", r>>)
                            /\ LoggedBefore(t.log, <<"block_del", r>>, <<"pending_del", d, s>>)
                            /\ LoggedBefore(t.log, <<"pending_del", d, s>>, <<"block_del", s>>)
                            /\ s \notin DOMAIN t.L.blocks
                            /\ r \notin DOMAIN t.L.blocks
                            /\ <<d, s>> \notin DOMAIN t.L.pending

\* a rollback of a send has just succeeded that first removed two blocks of
\* the chain that had received it
C4_Witness ==
    /\ LastSucceeded
    /\ Len(last.rolled_back) >= 3
    /\ LET s == last.rolled_back[Len(last.rolled_back)]
           r == last.rolled_back[Len(last.rolled_back) - 1]
           x == last.rolled_back[Len(last.rolled_back) - 2]
       IN  /\ AccountOfHash(r) # AccountOfHash(s)
           /\ AccountOfHash(x) = AccountOfHash(r)
           /\ HeightOfHash(x) > HeightOfHash(r)
           /\ s \notin DOMAIN ledger.blocks
           /\ r \notin DOMAIN ledger.blocks
           /\ <<AccountOfHash(r), s>> \notin DOMAIN ledger.pending

\* C5: after a successful rollback(T) of a block T of account A, T and every
\* block of A's chain at height >= height(T) are no longer stored, every block
\* of A's chain below T is still stored, and A's head is T.previous (A has no
\* head if T was its open block).
C5_RollbackRemovesFromTarget ==
    \A T \in DOMAIN ledger.blocks :
        LET t == RollbackOf(T)
            A == ledger_account(ledger, T)
            height == ledger.blocks[T].sideband.height
        IN  t.err = "" =>
              /\ ~is_confirmed(ledger, T)
              /\ \A x \in BlocksFrom(ledger, A, height) : x \notin DOMAIN t.L.blocks
              /\ \A x \in BlocksFrom(ledger, A, 1) \ BlocksFrom(ledger, A, height) :
                    x \in DOMAIN t.L.blocks
              /\ ledger_latest(t.L, A) = ledger.blocks[T].previous
              /\ ledger.blocks[T].previous = ZeroHash => A \notin DOMAIN t.L.accounts

\* a rollback has just succeeded whose target had a block above it and a block
\* below it, in an account with a confirmed block
C5_Witness ==
    /\ LastSucceeded
    /\ Len(last.rolled_back) >= 2
    /\ LET T == last.rolled_back[Len(last.rolled_back)]
           A == AccountOfHash(T)
       IN  /\ HeightOfHash(T) > 1
           /\ HashOf(A, HeightOfHash(T) + 1) \in SeqToSet(last.rolled_back)
           /\ A \in DOMAIN ledger.accounts
           /\ ledger.accounts[A].head = HashOf(A, HeightOfHash(T) - 1)
           /\ is_confirmed(ledger, ledger.accounts[A].head)
           /\ T \notin DOMAIN ledger.blocks

\* the account table with the modification times left out
WithoutModified(accounts) ==
    [a \in DOMAIN accounts |-> [accounts[a] EXCEPT !.modified = 0]]

\* C2: process(B1) .. process(Bn) and then rollback(B1) yields a ledger equal
\* to the starting ledger in block_count, accounts, pending, frontier and
\* rep_weights.  Stated for the runs in which the rollback of B1 removed every
\* one of B1 .. Bn, and with the modification times of the accounts left out.
C2_RollbackInvertsProcess ==
    (LastSucceeded /\ Len(last.rolled_back) > 0) =>
        LET B1 == last.rolled_back[Len(last.rolled_back)]
            start == hist[B1]
        IN  DOMAIN ledger.blocks = DOMAIN start.blocks =>
              /\ ledger.block_count = start.block_count
              /\ WithoutModified(ledger.accounts) = WithoutModified(start.accounts)
              /\ ledger.pending = start.pending
              /\ ledger.frontier = start.frontier
              /\ ledger.rep_weights = start.rep_weights

\* C11: for every reachable ledger and every target hash, rollback returns Ok
\* or Err after finitely many steps, at most one per stored block, and each
\* step (one observer notification) removes exactly one block.
C11_RollbackReturns ==
    \A h \in Hashes :
        LET t == RollbackOf(h)
        IN  /\ t.err # "panic"
            /\ DOMAIN t.L.blocks \subseteq DOMAIN ledger.blocks
            /\ Len(t.observed) = Cardinality(DOMAIN ledger.blocks \ DOMAIN t.L.blocks)
            /\ Len(t.observed) = ledger.block_count - t.L.block_count
            /\ Len(t.observed) <= ledger.block_count

\* ----------------------------------------------------- bootstrap server
\* C12: the connection mode of a response server changes only from Undefined
\* to Realtime or from Undefined to Bootstrap; once it is Realtime or
\* Bootstrap it never changes again, whatever message is received and whatever
\* the visitors ask for.
C12_ModeChangesOnlyFromUndefined ==
    [][\A s \in Servers :
          (srv.alive[s] /\ srv'.alive[s] /\ srv'.socket_type[s] # srv.socket_type[s])
              => /\ srv.socket_type[s] = "undefined"
                 /\ srv'.socket_type[s] \in {"realtime", "bootstrap"}]_vars

\* a server in Bootstrap mode has just been given a handshake message, and a
\* server in Realtime mode exists next to it
C12_Witness ==
    /\ srv.last.server \in Servers
    /\ srv.alive[srv.last.server]
    /\ srv.socket_type[srv.last.server] = "bootstrap"
    /\ srv.last.message = "node_id_handshake"
    /\ srv.last.visited = <<"bootstrap">>
    /\ \E s \in Servers : srv.alive[s] /\ srv.socket_type[s] = "realtime"

BootstrapConnections == {s \in Servers : srv.alive[s] /\ srv.socket_type[s] = "bootstrap"}

\* C13: under any interleaving of the response servers, the number of
\* connections in Bootstrap mode and the bootstrap count of the observer never
\* exceed connections_max.
C13_BootstrapConnectionsBounded ==
    /\ Cardinality(BootstrapConnections) <= connections_max
    /\ srv.bootstrap_count <= connections_max

\* C14: a message received on a connection in Realtime mode, a bootstrap
\* request such as BulkPull included, is seen by the realtime visitor only, is
\* put on the realtime queue iff that visitor accepts it, leaves the mode at
\* Realtime and the server reading.
C14_RealtimeIgnoresBootstrapRequests ==
    \A s \in Servers : \A v \in VisitorOutcomes :
        (/\ srv.alive[s] /\ ~srv.stopped[s] /\ srv.pc[s] = "receive"
         /\ srv.socket_type[s] = "realtime") =>
            LET r == process_message(srv, s, "bulk_pull", v)
            IN  /\ r.visited = <<"realtime">>
                /\ r.queued = v.process
                /\ r.S.queue = IF v.process THEN Append(srv.queue, <<s, "bulk_pull">>)
                               ELSE srv.queue
                /\ r.pc = "receive"
                /\ ~r.S.stopped[s]
                /\ r.S.socket_type[s] = "realtime"
                /\ r.S.bootstrap_count = srv.bootstrap_count

\* a BulkPull has just been received in Realtime mode and was not queued
C14_Witness ==
    /\ srv.last.server \in Servers
    /\ srv.alive[srv.last.server]
    /\ srv.socket_type[srv.last.server] = "realtime"
    /\ srv.last.message = "bulk_pull"
    /\ srv.last.visited = <<"realtime">>
    /\ ~srv.last.queued
    /\ srv.pc[srv.last.server] = "receive"
    /\ srv.stats["bulk_pull"] >= 1

\* ---- network
RealtimeChannels == {id \in net.channels : net.info[id].mode = "Realtime"}

CeilSqrt(n) == CHOOSE k \in 0..n : k * k >= n /\ (k = 0 \/ (k - 1) * (k - 1) < n)

IsDistinct(s) == \A i, j \in 1..Len(s) : i # j => s[i] # s[j]

\* C15: in every reachable state of the network, with n channels in Realtime
\* mode, every vector random_fanout_realtime(1.0) may return holds exactly
\* ceil(sqrt(n)) channels, pairwise distinct.
C15_FanoutSize ==
    \A sample \in random_fanout_realtime(net, 1, 1) :
        /\ Len(sample) = CeilSqrt(Cardinality(RealtimeChannels))
        /\ IsDistinct(sample)

\* C16: whenever the channels from the address of a peer number at least
\* max_peers_per_ip and the flag does not disable the limit, an inbound
\* connection from that peer is rejected, whatever the planned mode.
C16_AdmissionMonotonicity ==
    \A peer \in Endpoints, planned_mode \in ChannelModes :
        (/\ ~net.disable_max_peers_per_ip
         /\ count_by_ip(net, ipv4_address_or_ipv6_subnet(peer[1])) >= max_peers_per_ip)
            => can_add_connection(net, peer, "Inbound", planned_mode) = "Rejected"

\* an inbound connection was rejected while nothing but the limit per
\* address stood against it
C16_Witness ==
    /\ net.last.op = "add" /\ net.last.direction = "Inbound" /\ ~net.last.accepted
    /\ ~net.stopped /\ ~is_excluded(net, net.last.peer)
    /\ net.disable_max_peers_per_subnetwork
    /\ info_count_by_direction(net, "Inbound") < max_inbound_connections
    /\ count_by_ip(net, ipv4_address_or_ipv6_subnet(net.last.peer[1])) >= max_peers_per_ip

\* the channels whose remote or peering address is peer
ChannelsAt(peer) == {id \in net.channels : net.info[id].peer_addr = peer \/ net.info[id].peering_addr = peer}

Blocks(id, planned_mode) == is_alive(net, id) /\ net.info[id].mode \in {planned_mode, "Undefined"}

\* C17: an outbound connection to a peer is rejected whenever a live channel
\* at that peer (by remote or by peering address) is in the planned mode or
\* Undefined; when every channel at the peer is closed or in the other mode
\* and no other rule rejects the connection, it is accepted.
C17_NoDoubleConnect ==
    \A peer \in Endpoints, planned_mode \in ChannelModes :
        /\ (\E id \in ChannelsAt(peer) : Blocks(id, planned_mode))
              => can_add_connection(net, peer, "Outbound", planned_mode) = "Rejected"
        /\ (/\ \A id \in ChannelsAt(peer) : ~Blocks(id, planned_mode)
            /\ ~net.disable_tcp_realtime
            /\ ~not_a_peer(net, peer)
            /\ ~max_ip_or_subnetwork_connections(net, peer)
            /\ ~is_excluded(net, peer)
            /\ check_limits(net, peer, "Outbound") = "Accepted")
              => can_add_connection(net, peer, "Outbound", planned_mode) = "Accepted"

\* an outbound connection was accepted to a peer a closed channel is still
\* at, and a live channel in another mode as well
C17_Witness ==
    /\ net.last.op = "add" /\ net.last.direction = "Outbound" /\ net.last.accepted
    /\ \E id \in ChannelsAt(net.last.peer) \ net.last.ids : is_closed(net, id) \/ net.info[id].mode = "Bootstrap"

\* C18: purge(cutoff) removes from the channel tables exactly the channels
\* whose last_packet_received is earlier than cutoff, leaves every other
\* channel as it was, and returns exactly the ids of the channels removed.
C18_PurgeRemovesIdle ==
    [][(net'.last.op = "purge" /\ net' # net) =>
          LET cutoff == net'.last.sample[1]
              idle == {id \in DOMAIN net.info : net.info[id].last_packet_received < cutoff}
          IN  /\ net'.last.ids = idle
              /\ DOMAIN net'.info = (DOMAIN net.info) \ idle
              /\ net'.channels = net.channels \ idle
              /\ \A id \in DOMAIN net'.info : net'.info[id] = net.info[id]]_vars

\* a purge removed an idle channel and kept one that was not idle
C18_Witness ==
    /\ net.last.op = "purge" /\ net.last.ids # {} /\ net.channels # {}
    /\ \A id \in net.channels : net.info[id].last_packet_received >= net.last.sample[1]

\* ---- tcp channel
\* C19: every send that hands a message to the socket (try_send, send_buffer
\* or send) sets last_packet_sent to the time of the call and adds one to
\* the outbound Message counter of the message's type.
C19_EverySendCounts ==
    [][(tcp'.socket_writes = tcp.socket_writes + 1) =>
          /\ tcp'.last_packet_sent = tcp.clock
          /\ count(tcp', "Message", DetailType_from(tcp'.last.message))
                = count(tcp, "Message", DetailType_from(tcp'.last.message)) + 1]_vars

\* C20: try_send hands the message to the socket if and only if the policy
\* is not Limiter or should_pass returns true, and drops it otherwise; each
\* call adds one to exactly one of the Message and Drop counters of the
\* message's type; the limiter is asked only when the policy is Limiter.
C20_TrySendDropDecision ==
    [][(tcp'.last.op = "try_send" /\ tcp' # tcp) =>
          LET call == tcp'.last
              detail == DetailType_from(call.message)
              handed == call.drop_policy # "Limiter" \/ should_pass(tcp, BandwidthLimitType_from(call.traffic_type))
          IN  /\ tcp'.socket_writes = tcp.socket_writes + (IF handed THEN 1 ELSE 0)
              /\ count(tcp', "Message", detail) = count(tcp, "Message", detail) + (IF handed THEN 1 ELSE 0)
              /\ count(tcp', "Drop", detail) = count(tcp, "Drop", detail) + (IF handed THEN 0 ELSE 1)
              /\ call.limiter_asked => call.drop_policy = "Limiter"]_vars

\* ---- response server, undefined mode
\* C30: in Undefined mode a message the handshake visitor rejects (it neither
\* asks for the switch to realtime nor for processing) but flags as a
\* bootstrap request switches the connection to Bootstrap and the same
\* message is handled by the bootstrap visitor; a message that is neither
\* handshake nor bootstrap leaves the mode Undefined, is not enqueued, and
\* reading continues.
C30_UndefinedFallsThroughToBootstrap ==
    \A s \in Servers : \A message \in MessageTypes : \A v \in VisitorOutcomes :
        (/\ srv.alive[s] /\ ~srv.stopped[s] /\ srv.pc[s] = "receive"
         /\ is_undefined_connection(srv, s)
         /\ ~v.process /\ ~v.to_realtime)
        => LET r == process_message(srv, s, message, v)
               \* the call of to_bootstrap_connection, run to its end
               done == IF r.pc = "inc"
                       THEN bootstrap_branch(to_bootstrap_connection_switch(r.S, s), s, v, r.visited)
                       ELSE r
           IN  IF v.bootstrap
               THEN /\ is_bootstrap_connection(done.S, s)
                    /\ done.visited = <<"handshake", "bootstrap">>
               ELSE /\ is_undefined_connection(done.S, s)
                    /\ ~done.queued /\ done.S.queue = srv.queue
                    /\ done.pc = "receive" /\ ~done.S.stopped[s]

\* ---- the reads of a response server
Increasing(seq) == \A i, j \in DOMAIN seq : i < j => seq[i] < seq[j]

\* C21: a response server has at most one read outstanding at any time, and
\* the frames of one connection are given to process_message, and the
\* accepted realtime messages to the realtime queue, in the order in which
\* they arrived on the connection.
C21_PerConnectionOrder ==
    \A s \in Servers :
        /\ Cardinality(io.reads[s]) <= 1
        /\ Increasing(io.processed[s])
        /\ Increasing(io.queued[s])

\* two frames of one connection were processed and queued, a third is read
C21_Witness ==
    \E s \in Servers :
        /\ io.processed[s] = <<1, 2>> /\ io.queued[s] = <<1, 2>>
        /\ io.reads[s] = {3}

\* C22: whenever the deserializer reports a protocol error for an incoming
\* frame (malformed frame, unknown message or block type, duplicate publish)
\* the response server stops, closes its socket and reads no further
\* message from that connection.
C22_ProtocolErrorsClose ==
    [][(io'.last.op = "read" /\ io'.last # io.last /\ io'.last.status \in ProtocolErrors) =>
          LET s == io'.last.server
          IN  /\ srv'.stopped[s]
              /\ io'.socket_closed[s] = 1
              /\ io'.reads[s] = {} /\ io'.issued[s] = io.issued[s]]_vars

KeepalivePeers == {id \in net.channels : is_alive(net, id) /\ net.info[id].mode = "Realtime" /\ net.info[id].peering_addr # NoEndpoint}
MinOf(a, b) == IF a < b THEN a ELSE b

\* C28 as stated: random_fill_peering_endpoints on k slots fills the first
\* min(k, m) slots with pairwise distinct peering addresses of live Realtime
\* channels that have a peering address, m being the number of such
\* channels, and sets every remaining slot to the null endpoint.
C28_KeepaliveEndpoints ==
    net.last.op = "random_fill_realtime" =>
        LET endpoints == net.last.sample
            filled == MinOf(Len(endpoints), Cardinality(KeepalivePeers))
        IN  /\ \A i \in 1..filled : \E id \in KeepalivePeers : endpoints[i] = net.info[id].peering_addr
            /\ \A i, j \in 1..filled : i # j => endpoints[i] # endpoints[j]
            /\ \A i \in (filled + 1)..Len(endpoints) : endpoints[i] = null_endpoint

\* C28, amended: the first min(k, m) slots hold the peering addresses of
\* pairwise distinct live Realtime channels that have a peering address (an
\* address two such channels share may fill two slots), every remaining
\* slot holds the null endpoint, and no other channel's address appears.
C28_KeepaliveChannels ==
    net.last.op = "random_fill_realtime" =>
        LET endpoints == net.last.sample
            filled == MinOf(Len(endpoints), Cardinality(KeepalivePeers))
        IN  /\ \E chosen \in [1..filled -> KeepalivePeers] :
                  /\ \A i, j \in 1..filled : i # j => chosen[i] # chosen[j]
                  /\ \A i \in 1..filled : endpoints[i] = net.info[chosen[i]].peering_addr
            /\ \A i \in (filled + 1)..Len(endpoints) : endpoints[i] = null_endpoint

\* two slots were filled from one eligible channel while another Realtime
\* channel without a peering address was live
C28_Witness ==
    /\ net.last.op = "random_fill_realtime" /\ Len(net.last.sample) = 2
    /\ Cardinality(KeepalivePeers) = 1
    /\ net.last.sample[1] # null_endpoint /\ net.last.sample[2] = null_endpoint
    /\ \E id \in net.channels : is_alive(net, id) /\ net.info[id].mode = "Realtime" /\ net.info[id].peering_addr = NoEndpoint

\* ---- upgrade to realtime
\* C29: a channel added with Network::add has mode Undefined and is not
\* listed as a realtime channel, whatever planned mode was passed, until
\* upgrade_to_realtime_connection succeeds for it; that call returns true and
\* sets the channel's node id and mode Realtime if and only if the network
\* is not stopped, the channel exists, and no channel already registered
\* under the same node id has the same IP address or subnet.
C29_UpgradeToRealtime ==
    /\ \A id \in DOMAIN net.info :
          net.info[id].node_id = NoNodeId =>
              net.info[id].mode = "Undefined" /\ id \notin list_realtime(net, 0)
    /\ \A channel_id \in ChannelIds \cup net.channels, node_id \in NodeIds :
       \A other \in OthersOf(net, node_id) :
          LET returned == upgrade_to_realtime_connection_result(net, channel_id, node_id, other)
              after == upgrade_to_realtime_connection(net, channel_id, node_id, other)
              same_ip == {o \in get_by_node_id(net, node_id) :
                             ipv4_address_or_ipv6_subnet(net.info[o].peer_addr[1])
                                = ipv4_address_or_ipv6_subnet(net.info[channel_id].peer_addr[1])}
          IN  \* the call for a channel that was not upgraded before
              (channel_id \in net.channels => net.info[channel_id].node_id = NoNodeId) =>
                  /\ returned <=> (~net.stopped /\ channel_id \in net.channels /\ same_ip = {})
                  /\ returned => /\ after.info[channel_id].node_id = node_id
                                 /\ after.info[channel_id].mode = "Realtime"
                  /\ ~returned => after.info = net.info

\* ---- asynchronous sends
\* C24: after stop every asynchronous send that waits for the bandwidth
\* limiter eventually returns, even if the limiter never lets the buffer
\* pass again (the send can return without the bucket being refilled), and
\* a send started after stop short-circuits.
C24_StoppedSendsReturn ==
    \A i \in SendIds :
        /\ (net.stopped /\ snd.state[i] = "waiting") => ENABLED PollSend(i)
        /\ snd.after_stop[i] => snd.state[i] = "err"

\* ---- statistics
\* the values that are in a counter of the type and not yet in its All counter
PendingAll(stat_type) ==
    LET waiting == {t \in Threads : stat.pc[t] = "add_all" /\ stat.key[t][1] = stat_type}
    IN  SumOver(stat.value, waiting)
DetailSum(stat_type) ==
    LET keys == {k \in DOMAIN stat.counters : k[1] = stat_type /\ k # all_key(k)}
    IN  SumOver(stat.counters, keys)

\* C27: whatever the interleaving of add_dir calls and clear, for every stat
\* type (and direction) the All counter equals the sum of the values added
\* since the last clear to any detail of the type, the values added to All
\* itself included (a value a thread has added to its detail counter and is
\* about to add to All counts as not yet added); the All entry exists
\* whenever a detail entry of the type exists; adding 0 changes nothing.
C27_StatsAggregation ==
    /\ \A stat_type \in StatTypes :
          /\ stats_count(stat, <<stat_type, "all">>) + PendingAll(stat_type) = stat.added[stat_type]
          /\ DetailSum(stat_type) + stat.direct[stat_type] = stat.added[stat_type]
    /\ \A key \in DOMAIN stat.counters : all_key(key) \in DOMAIN stat.counters
    /\ \A t \in Threads, key \in CounterKeys : add_dir_read(stat, t, key, 0) = stat

\* every call has returned, the last of them through the write lock; values
\* were added to a detail counter and to the All counter itself
C27_Witness ==
    /\ stat.last.op = "write" /\ stat.calls = MaxCalls
    /\ \A t \in Threads : stat.pc[t] = "idle"
    /\ \E stat_type \in StatTypes :
          /\ stat.direct[stat_type] > 0
          /\ stat.added[stat_type] > stat.direct[stat_type]
          /\ stats_count(stat, <<stat_type, "all">>) = stat.added[stat_type]

\* ---- messages on the wire
PairBytes == 2 * HashBytes

PairAt(stream, i) ==
    <<FromBigEndian(SubSeq(stream, (i - 1) * PairBytes + 1, (i - 1) * PairBytes + HashBytes)),
      FromBigEndian(SubSeq(stream, (i - 1) * PairBytes + HashBytes + 1, i * PairBytes))>>

NoZeroPair(roots_hashes) == \A i \in DOMAIN roots_hashes : roots_hashes[i] # <<0, 0>>

\* reading the list of a request with count c in its header succeeds if and
\* only if c >= 1, the stream holds c pairs and none of them is all zero, and
\* then the result is these c pairs in the order of the stream
RootsAreRead ==
    wire.op \in {"deserialize_roots", "confirm_req"} =>
        /\ wire.result.ok <=>
               /\ wire.count >= 1
               /\ Len(wire.stream) >= wire.count * PairBytes
               /\ \A i \in 1..wire.count : PairAt(wire.stream, i) # <<0, 0>>
        /\ wire.result.ok => wire.result.value = [i \in 1..wire.count |-> PairAt(wire.stream, i)]

RootsComeBack == wire.result.ok /\ wire.result.value = wire.message

\* C26 as stated: a request is read as RootsAreRead says, so every non-empty
\* list without an all-zero pair, whatever its length, is read back equal
\* after it was written
C26_ConfirmReqAnyLength ==
    /\ RootsAreRead
    /\ (wire.op = "confirm_req" /\ NoZeroPair(wire.message)) => RootsComeBack

\* C26, amended: a request is read as RootsAreRead says, so every non-empty
\* list without an all-zero pair whose length fits the count of the header is
\* read back equal after it was written
C26_ConfirmReqRoots ==
    /\ RootsAreRead
    /\ (wire.op = "confirm_req" /\ NoZeroPair(wire.message) /\ Len(wire.message) <= MaxCount) => RootsComeBack

C26_Witness ==
    /\ wire.op = "confirm_req"
    /\ NoZeroPair(wire.message)
    /\ Len(wire.message) = MaxCount
    /\ wire.result.ok

\* C25: an ack built with 0 to MAX_BLOCKS blocks, or with an account-info
\* payload, is written, and reading what was written gives a payload equal to
\* the original and leaves nothing of the stream unread
C25_AscPullAckRoundTrip ==
    (wire.op = "asc_pull_ack" /\ (wire.message.pull_type = "blocks" => Len(wire.message.v) <= MAX_BLOCKS)) =>
        /\ wire.written
        /\ wire.result.ok
        /\ wire.result.value = wire.message
        /\ wire.result.rest = <<>>

C25_Witness ==
    /\ wire.op = "asc_pull_ack"
    /\ wire.message.pull_type = "blocks"
    /\ Len(wire.message.v) = MAX_BLOCKS
    /\ wire.result.ok
    /\ wire.result.rest = <<>>

\* ---- the reads of a response server in bootstrap mode
\* the bootstrap visitor was the last to see the message of this step
BootstrapVisited(s) ==
    /\ io'.processed[s] # io.processed[s]
    /\ srv'.last.visited # <<>>
    /\ srv'.last.visited[Len(srv'.last.visited)] = "bootstrap"

\* C31: when the bootstrap visitor has processed a message the response
\* server hands no read to the deserializer, neither in that step nor later,
\* until the request is served and the server is started again; when the
\* visitor has not processed the message a running server hands out the next
\* read in the same step
C31_BootstrapReads ==
    [][\A s \in Readers :
          /\ srv'.pc[s] = "serving" => (io'.issued[s] = io.issued[s] /\ io'.reads[s] \subseteq io.reads[s])
          /\ (BootstrapVisited(s) /\ srv'.pc[s] = "receive" /\ ~srv.stopped[s]) =>
                 (io'.issued[s] = io.issued[s] + 1 /\ io'.reads[s] = {io'.issued[s]})]_vars

C31_Witness ==
    \E s \in Readers :
        /\ srv.pc[s] = "serving" /\ ~srv.stopped[s]
        /\ io.last.op = "read" /\ io.last.server = s
        /\ io.processed[s] # <<>> /\ io.reads[s] = {}

\* ---- the observer of a rollback
\* the sub-type the rule of the observer gives a stored block: its balance
\* against the balance of the block before it
BalanceSubType(L, block) ==
    LET balance == balance_calculated(block)
        previous_balance ==
            IF block.previous = ZeroHash THEN 0 ELSE balance_calculated(L.blocks[block.previous])
    IN  IF balance < previous_balance THEN "send"
        ELSE IF balance > previous_balance
        THEN (IF block.type = "open" \/ (block.type = "state" /\ block.previous = ZeroHash)
              THEN "open" ELSE "receive")
        ELSE IF is_epoch_link(block.link) THEN "epoch"
        ELSE "change"

\* the sub-type a block was applied under: its type if it is a legacy block,
\* what the validator wrote into its sideband if it is a state block
AppliedSubType(block) ==
    IF block.type # "state" THEN block.type
    ELSE IF block.sideband.is_send THEN "send"
    ELSE IF block.sideband.is_receive
    THEN (IF block.previous = ZeroHash THEN "open" ELSE "receive")
    ELSE IF block.sideband.is_epoch THEN "epoch"
    ELSE "change"

Removed(t) == DOMAIN ledger.blocks \ DOMAIN t.L.blocks

\* C32: a rollback that returns has notified the observer once for every
\* block it removed, in the order of removal, with the sub-type that the
\* balances of the block and of the block before it give (send below, open or
\* receive above, epoch or change at a tie), and this is the sub-type the block
\* was applied under
C32_RolledBackSubTypes ==
    \A h \in DOMAIN ledger.blocks :
        LET t == RollbackOf(h)
        IN  t.err # "panic" =>
                /\ Len(t.observed) = Len(t.rolled_back)
                /\ Len(t.rolled_back) = Cardinality(Removed(t))
                /\ \A i \in DOMAIN t.rolled_back :
                       /\ t.rolled_back[i] \in Removed(t)
                       /\ t.observed[i] = BalanceSubType(ledger, ledger.blocks[t.rolled_back[i]])
                       /\ t.observed[i] = AppliedSubType(ledger.blocks[t.rolled_back[i]])

C32_Witness ==
    \E h \in DOMAIN ledger.blocks :
        LET t == RollbackOf(h)
        IN  /\ t.err = ""
            /\ \E i, j \in DOMAIN t.observed : t.observed[i] = "send" /\ t.observed[j] = "receive"
            /\ \E i \in DOMAIN t.rolled_back : ledger.blocks[t.rolled_back[i]].type = "state"

\* ---- realtime channels of one node
\* C38: no two channels listed as realtime carry the same node id and come
\* from the same address or subnetwork, whatever was added and upgraded
\* before
C38_RealtimeChannelsDiffer ==
    \A a, b \in list_realtime(net, 0) :
        (/\ a # b
         /\ net.info[a].node_id = net.info[b].node_id)
            => ipv4_address_or_ipv6_subnet(net.info[a].peer_addr[1])
                   # ipv4_address_or_ipv6_subnet(net.info[b].peer_addr[1])

\* ---- the end of process_message
\* C35: process_message never reaches its final assertion, which ends the
\* server in a debug build: a running server is stopped by a failed read and
\* by nothing else, whatever message it receives in whatever mode, a bootstrap
\* request in Undefined mode with the bootstrap listener disabled or the
\* bootstrap count at connections_max included
C35_AssertionNotReached ==
    [][\A s \in Servers :
          (srv.alive[s] /\ srv'.alive[s] /\ ~srv.stopped[s] /\ srv'.stopped[s])
              => srv'.stats["error"] = srv.stats["error"] + 1]_vars

\* ---- the limits of an ack
\* C34: a blocks payload is written if and only if it holds at most
\* MAX_BLOCKS blocks; a stream of blocks and their terminator is read if and
\* only if it carries at most MAX_BLOCKS blocks, and then these blocks are the
\* result; and the extensions of the header of every ack that was built hold
\* the number of bytes of its payload after the type code and the id, all of
\* them
C34_AckLimits ==
    /\ (wire.op = "asc_pull_ack" /\ wire.message.pull_type = "blocks") =>
           (wire.written <=> Len(wire.message.v) <= MAX_BLOCKS)
    /\ wire.op = "deserialize_blocks" =>
           /\ wire.result.ok <=> Len(wire.message) <= MAX_BLOCKS
           /\ wire.result.ok => wire.result.value = wire.message
    /\ (wire.op = "asc_pull_ack" /\ wire.written) =>
           wire.count = Len(wire.stream) - 1 - U64Bytes

C34_Witness ==
    /\ wire.op = "asc_pull_ack" /\ wire.written
    /\ wire.message.pull_type = "blocks"
    /\ Len(wire.message.v) = MAX_BLOCKS
    /\ \A i \in DOMAIN wire.message.v : wire.message.v[i].block_type = "state"
    /\ wire.count = MAX_BLOCKS * (1 + StateBlockBytes) + 1

\* ---- calls of add and stop that interleave
AddsInFlight == {t \in Adders : calls.add[t].pc \in {"admitted", "created"}}

\* C37: under any interleaving of concurrent calls of Network::add, the
\* channels of one address never number more than max_peers_per_ip and the
\* inbound channels never number more than max_inbound_connections (no flag
\* that skips a cap is set).
C37_AdmissionIsAtomic ==
    (~net.disable_max_peers_per_ip /\ ~net.disable_max_peers_per_subnetwork) =>
        /\ \A address \in Ips : count_by_ip(net, ipv4_address_or_ipv6_subnet(address)) <= max_peers_per_ip
        /\ count_by_direction(net, "Inbound") <= max_inbound_connections

\* C36: once stop has returned and no call of add is in flight, every
\* channel of the container is closed and every channel ever added is closed.
C36_StoppedLeavesNoLiveChannel ==
    (calls.stop = "returned" /\ AddsInFlight = {}) =>
        /\ \A id \in net.channels : is_closed(net, id)
        /\ \A id \in DOMAIN net.info : is_closed(net, id)

\* ---- the wait for an inbound slot
Waiting == calls.wait \in {"count", "flag", "sleep"}
\* the wait has found every slot taken
FoundNoSlot == calls.wait \in {"flag", "sleep"}
SlotFree == count_by_direction(net, "Inbound") < max_inbound_connections

ReturnsWithSlotOrStopped ==
    [][(calls.wait # "returned" /\ calls'.wait = "returned") =>
          (count_by_direction(net', "Inbound") < max_inbound_connections \/ net'.stopped)]_vars

\* C33 as stated: the wait returns only in a state where an inbound slot is
\* free or the network is stopped, and a wait that found no slot eventually
\* returns once an inbound channel is removed (a slot is free again) or the
\* network is stopped.
C33_ReturnsOnceSlotFreed ==
    /\ ReturnsWithSlotOrStopped
    /\ (FoundNoSlot /\ (SlotFree \/ net.stopped)) ~> (calls.wait = "returned")

\* C33, amended: the wait returns only in a state where an inbound slot is
\* free or the network is stopped; it eventually returns once the network
\* is stopped, and it does not wait for ever while a slot stays free.
C33_ReturnsOnStopOrLastingSlot ==
    /\ ReturnsWithSlotOrStopped
    /\ (Waiting /\ net.stopped) ~> (calls.wait = "returned")
    /\ ~<>[](Waiting /\ SlotFree)

\* a wait that slept, saw a slot freed and taken again, and returned when
\* the network was stopped with both slots taken
C33_Witness ==
    /\ calls.wait = "returned"
    /\ net.stopped
    /\ ~SlotFree
    /\ net.last.op = "add"
    /\ net.next_channel_id > MaxChannels + 1

\* ---- read transactions and their tracker
CallsOf(txn_id) == SelectSeq(lmdb.tracker, LAMBDA c : c[2] = txn_id)

\* C39: for every read transaction the calls of the tracker are balanced:
\* they start with txn_start, every txn_start is followed by one txn_end
\* before the next txn_start, and txn_end is never called for a transaction
\* that is not active.
C39_TrackerCallsBalanced ==
    \A txn_id \in TxnIds :
        \A i \in 1..Len(CallsOf(txn_id)) :
            CallsOf(txn_id)[i][1] = IF i % 2 = 1 THEN "txn_start" ELSE "txn_end"

\* ---- websocket subscriptions
Subscribers(topic) == {s \in Sessions : ws.live[s] /\ topic \in ws.subscriptions[s]}
\* the sessions that hold their lock between the change of their map and
\* the fetch_add (or fetch_sub) for the topic
ToAdd(topic) == {s \in Sessions : ws.step[s].op = "fetch_add" /\ topic \in ws.step[s].topics}
ToSub(topic) == {s \in Sessions : ws.step[s].op = "fetch_sub" /\ topic \in ws.step[s].topics}

\* C40: for every topic, topic_subscriber_count[topic] is the number of
\* live sessions whose subscriptions contain the topic whenever no session
\* is between the change of its map and the change of the count (and
\* differs from it by exactly the changes still to be made otherwise); no
\* count ever wraps around.
C40_SubscriberCount ==
    /\ ~ws.wrapped
    /\ \A topic \in SubscribedTopics :
          /\ ws.topic_subscriber_count[topic] + Cardinality(ToAdd(topic))
                = Cardinality(Subscribers(topic)) + Cardinality(ToSub(topic))
          /\ (ToAdd(topic) = {} /\ ToSub(topic) = {}) =>
                ws.topic_subscriber_count[topic] = Cardinality(Subscribers(topic))

\* a session has ended with a subscription to the topic another session
\* has just subscribed to again
C40_Witness ==
    \E s, d \in Sessions :
        /\ ws.last = WsCall("subscribe", s, "vote", FALSE)
        /\ ~ws.live[d] /\ "vote" \in ws.subscriptions[d] /\ ws.step[d] = NoStep
        /\ ws.topic_subscriber_count["vote"] = 1
        /\ ws.topic_subscriber_count["confirmation"] = 0

====
